---- MODULE Spec2Model ----
(***************************************************************************)
(* Model of scripts/svg-utils.mjs: flattenSvg and the colour helpers.      *)
(*                                                                         *)
(* A document is a sequence of tokens.  A token is a TLA+ string holding a *)
(* literal piece of the document's text; the text of the document is the   *)
(* concatenation of its tokens.  The characters the regular expressions of *)
(* the source treat specially  ( ) { } ; : , " ' > and white space  occur  *)
(* only as tokens of their own (and in the three markers "style=",         *)
(* "<style", "</style>"), so that a character class of the source is a     *)
(* set of tokens.  Colour values are real strings and are taken apart      *)
(* character by character.                                                 *)
(***************************************************************************)
EXTENDS Integers, Sequences, FiniteSets, TLC

VARIABLES svg, colors, pc, cssVars, computed, flatSvg, args, result, env

vars == <<svg, colors, pc, cssVars, computed, flatSvg, args, result, env>>

\* The variables of a call of flattenSvg, and those of a call of one of the
\* other exported functions: its arguments, its result, and what the
\* operating system answers to it.
flattenVars == <<svg, colors, cssVars, computed, flatSvg>>

helperVars == <<args, result, env>>

(***************************************************************************)
(* Bounds of the model.                                                    *)
(***************************************************************************)
MaxVarPieces == 4
MaxAttrPieces == 3
MaxRules == 2
MaxHexDigits == 6
MaxWidthLen == 5
MaxPlainPieces == 3
MaxSelRules == 2
MaxFiles == 4
MaxIndex == 3

(***************************************************************************)
(* Generic helpers on token sequences and strings.                         *)
(***************************************************************************)
Null == <<>>

Space == {" ", "\n"}

IsSpace(t) == t \in Space

RECURSIVE Flat(_)
\* The text of a token sequence: the concatenation of its tokens.
Flat(s) == IF s = <<>> THEN "" ELSE Head(s) \o Flat(Tail(s))

RECURSIVE Concat(_)
\* Concatenation of a sequence of token sequences.
Concat(ss) == IF ss = <<>> THEN <<>> ELSE Head(ss) \o Concat(Tail(ss))

RECURSIVE SkipSpace(_, _)
\* \s* from position i: the first position >= i holding no white space.
SkipSpace(s, i) ==
  IF i <= Len(s) /\ IsSpace(s[i]) THEN SkipSpace(s, i + 1) ELSE i

RECURSIVE SkipSpaceBack(_, _)
SkipSpaceBack(s, i) ==
  IF i >= 1 /\ IsSpace(s[i]) THEN SkipSpaceBack(s, i - 1) ELSE i

\* String.prototype.trim on a token sequence.
TrimToks(s) == SubSeq(s, SkipSpace(s, 1), SkipSpaceBack(s, Len(s)))

RECURSIVE FirstIn(_, _, _)
\* The first position >= i of s holding a token of set T, or 0.
FirstIn(s, i, T) ==
  IF i > Len(s) THEN 0
  ELSE IF s[i] \in T THEN i
  ELSE FirstIn(s, i + 1, T)

StartsDashed(t) == Len(t) >= 2 /\ SubSeq(t, 1, 2) = "--"

WordChars ==
  {"a","b","c","d","e","f","g","h","i","j","k","l","m","n","o","p","q","r",
   "s","t","u","v","w","x","y","z","A","B","C","D","E","F","G","H","I","J",
   "K","L","M","N","O","P","Q","R","S","T","U","V","W","X","Y","Z","0","1",
   "2","3","4","5","6","7","8","9","_","-"}

\* [\w-]+ : a token all of whose characters are word characters or hyphens.
IsWord(t) == Len(t) >= 1 /\ \A k \in 1..Len(t) : SubSeq(t, k, k) \in WordChars

(***************************************************************************)
(* Colour model: hexToRgb, rgbToHex, mixColors.                            *)
(***************************************************************************)
HexChars == <<"0","1","2","3","4","5","6","7","8","9","a","b","c","d","e","f">>

UpperHex == <<"0","1","2","3","4","5","6","7","8","9","A","B","C","D","E","F">>

IsHexChar(c) == \E n \in 1..16 : HexChars[n] = c \/ UpperHex[n] = c

HexVal(c) == (CHOOSE n \in 1..16 : HexChars[n] = c \/ UpperHex[n] = c) - 1

RECURSIVE TrimStr(_)
\* String.prototype.trim on a string.
TrimStr(str) ==
  IF Len(str) = 0 THEN str
  ELSE IF SubSeq(str, 1, 1) \in Space THEN TrimStr(SubSeq(str, 2, Len(str)))
  ELSE IF SubSeq(str, Len(str), Len(str)) \in Space
       THEN TrimStr(SubSeq(str, 1, Len(str) - 1))
  ELSE str

\* A hexToRgb without the 3-digit form.
hexToRgbSixOnly(hex) ==
  LET value == TrimStr(hex)
      digits == IF Len(value) >= 1 /\ SubSeq(value, 1, 1) = "#"
                THEN SubSeq(value, 2, Len(value)) ELSE value
      d(k) == HexVal(SubSeq(digits, k, k))
  IN  IF Len(digits) = 6 /\ \A k \in 1..6 : IsHexChar(SubSeq(digits, k, k))
      THEN <<d(1) * 16 + d(2), d(3) * 16 + d(4), d(5) * 16 + d(6)>>
      ELSE Null

\* hexToRgb: <<r, g, b>> or Null.
hexToRgb(hex) ==
  LET value == TrimStr(hex)
      digits == IF Len(value) >= 1 /\ SubSeq(value, 1, 1) = "#"
                THEN SubSeq(value, 2, Len(value)) ELSE value
      d(k) == HexVal(SubSeq(digits, k, k))
      allHex == \A k \in 1..Len(digits) : IsHexChar(SubSeq(digits, k, k))
  IN  IF Len(digits) = 3 /\ allHex
        THEN <<d(1) * 16 + d(1), d(2) * 16 + d(2), d(3) * 16 + d(3)>>
      ELSE IF Len(digits) = 6 /\ allHex
        THEN <<d(1) * 16 + d(2), d(3) * 16 + d(4), d(5) * 16 + d(6)>>
      ELSE Null

RECURSIVE ToString16Upper(_)
\* Hexadecimal digits in upper case.
ToString16Upper(n) ==
  IF n < 0 THEN "-" \o ToString16Upper(-n)
  ELSE IF n < 16 THEN UpperHex[n + 1]
  ELSE ToString16Upper(n \div 16) \o UpperHex[(n % 16) + 1]

RECURSIVE ToString16(_)
\* Number.prototype.toString(16) of a natural number.
ToString16(n) ==
  IF n < 0 THEN "-" \o ToString16(-n)
  ELSE IF n < 16 THEN HexChars[n + 1]
  ELSE ToString16(n \div 16) \o HexChars[(n % 16) + 1]

\* No padding at all.
NoPad(str) == str

\* String.prototype.padStart(2, '0')
PadStart2(str) == IF Len(str) < 2 THEN "0" \o str ELSE str

rgbToHex(r, g, b) ==
  "#" \o PadStart2(ToString16(r)) \o PadStart2(ToString16(g))
      \o PadStart2(ToString16(b))

\* Truncation in place of rounding.
TruncChannel(f, b, pct) == (100 * b + (f - b) * pct) \div 100

\* Math.round(bg + (fg - bg) * ratio), the ratio given in hundredths.  For
\* the ratios of set Ratios below, and channels in 0..255, the double
\* arithmetic of the source yields this exactly rounded value.
MixChannel(f, b, pct) == (200 * b + 2 * (f - b) * pct + 100) \div 200

\* mixColors with the background as the fallback: when an input fails to
\* parse it returns bg.
mixColorsFallsToBg(fg, bg, pct) ==
  LET fgRgb == hexToRgb(fg)
      bgRgb == hexToRgb(bg)
  IN  IF fgRgb = Null \/ bgRgb = Null THEN bg
      ELSE rgbToHex(MixChannel(fgRgb[1], bgRgb[1], pct),
                    MixChannel(fgRgb[2], bgRgb[2], pct),
                    MixChannel(fgRgb[3], bgRgb[3], pct))

mixColors(fg, bg, pct) ==
  LET fgRgb == hexToRgb(fg)
      bgRgb == hexToRgb(bg)
  IN  IF fgRgb = Null \/ bgRgb = Null THEN fg
      ELSE rgbToHex(MixChannel(fgRgb[1], bgRgb[1], pct),
                    MixChannel(fgRgb[2], bgRgb[2], pct),
                    MixChannel(fgRgb[3], bgRgb[3], pct))

(***************************************************************************)
(* Property tables: functions from a property name to its value.           *)
(***************************************************************************)
EmptyTable == [k \in {} |-> ""]

\* { ...f, ...g } : the entries of g overwrite those of f.
Merge(f, g) ==
  [k \in (DOMAIN f) \cup (DOMAIN g) |-> IF k \in DOMAIN g THEN g[k] ELSE f[k]]

\* table[name] = value
Put(f, name, value) == Merge(f, [k \in {name} |-> value])

Quotes == {"\"", "'"}

RECURSIVE WordRunEnd(_, _)
\* [\w-]+ from position i (a word token): the last token of the run.
WordRunEnd(s, i) ==
  IF i + 1 <= Len(s) /\ IsWord(s[i + 1]) THEN WordRunEnd(s, i + 1) ELSE i

\* The end of [^;]+ from position i: the position before the next ";".
ValueEnd(s, i) ==
  LET semi == FirstIn(s, i, {";"})
  IN  IF semi = 0 THEN Len(s) ELSE semi - 1

RECURSIVE InlineDecls(_, _, _)
\* style.matchAll(/--([\w-]+):([^;]+)/g), each match stored in the table.
InlineDecls(style, i, table) ==
  IF i > Len(style) THEN table
  ELSE LET j == WordRunEnd(style, i)
           name == Flat(SubSeq(style, i, j))
           e == ValueEnd(style, j + 2)
       IN  IF /\ IsWord(style[i]) /\ StartsDashed(style[i]) /\ Len(name) > 2
              /\ j + 1 <= Len(style) /\ style[j + 1] = ":"
              /\ e >= j + 2
           THEN InlineDecls(style, e + 1,
                  Put(table, name, TrimStr(Flat(SubSeq(style, j + 2, e)))))
           ELSE InlineDecls(style, i + 1, table)

RECURSIVE BlockDecls(_, _, _)
\* declBlock.matchAll(/--([\w-]+)\s*:\s*([^;]+)/g), into a Map.
BlockDecls(body, i, table) ==
  IF i > Len(body) THEN table
  ELSE LET j == WordRunEnd(body, i)
           name == Flat(SubSeq(body, i, j))
           k == SkipSpace(body, j + 1)
           e == ValueEnd(body, k + 1)
       IN  IF /\ IsWord(body[i]) /\ StartsDashed(body[i]) /\ Len(name) > 2
              /\ k <= Len(body) /\ body[k] = ":"
              /\ e >= k + 1
           THEN BlockDecls(body, e + 1,
                  Put(table, name, TrimStr(Flat(SubSeq(body, k + 1, e)))))
           ELSE BlockDecls(body, i + 1, table)

RECURSIVE parseCssRules(_, _)
\* The rules /([^{]+)\{([^}]*)\}/g finds from position i on that declare a
\* custom property, each with its trimmed selector.
parseCssRules(styleContent, i) ==
  IF i > Len(styleContent) THEN <<>>
  ELSE IF styleContent[i] = "{" THEN parseCssRules(styleContent, i + 1)
  ELSE LET b == FirstIn(styleContent, i, {"{"})
           e == IF b = 0 THEN 0 ELSE FirstIn(styleContent, b + 1, {"}"})
       IN  IF e = 0 THEN <<>>
           ELSE LET selector == Flat(TrimToks(SubSeq(styleContent, i, b - 1)))
                    declarations ==
                      BlockDecls(SubSeq(styleContent, b + 1, e - 1), 1, EmptyTable)
                    rest == parseCssRules(styleContent, e + 1)
                IN  IF DOMAIN declarations # {}
                    THEN <<[selector |-> selector,
                            declarations |-> declarations]>> \o rest
                    ELSE rest

LowerAlpha == <<"a","b","c","d","e","f","g","h","i","j","k","l","m","n","o","p",
                "q","r","s","t","u","v","w","x","y","z">>

UpperAlpha == <<"A","B","C","D","E","F","G","H","I","J","K","L","M","N","O","P",
                "Q","R","S","T","U","V","W","X","Y","Z">>

LowerChar(c) ==
  IF \E n \in 1..26 : UpperAlpha[n] = c
  THEN LowerAlpha[CHOOSE n \in 1..26 : UpperAlpha[n] = c]
  ELSE c

RECURSIVE ToLower(_)
ToLower(str) ==
  IF Len(str) = 0 THEN str
  ELSE LowerChar(SubSeq(str, 1, 1)) \o ToLower(SubSeq(str, 2, Len(str)))

\* The test without the i flag.
isGlobalCaseSensitive(selector) ==
  selector \in {":root", "::root", "html", "body", "svg", "*"}

\* /^(::?root|html|body|svg|\*)$/i.test(selector)
isGlobal(selector) ==
  ToLower(selector) \in {":root", "::root", "html", "body", "svg", "*"}

\* style=(["'])([^"']*?)\1 at position i: the closing quote's position, or 0.
StyleAttrEnd(s, i) ==
  IF i + 1 <= Len(s) /\ s[i] = "style=" /\ s[i + 1] \in Quotes
  THEN LET p == FirstIn(s, i + 2, Quotes)
       IN  IF p # 0 /\ s[p] = s[i + 1] THEN p ELSE 0
  ELSE 0

\* <style[^>]*> at position i: the position of the token that ends the tag
\* (the first token after "<style" that holds a ">"), or 0.
StyleTagEnd(s, i) ==
  IF i <= Len(s) /\ s[i] = "<style"
  THEN FirstIn(s, i + 1, {">", "</style>"})
  ELSE 0

\* <style[^>]*>([\s\S]*?)<\/style> at position i: the position of the
\* closing tag, or 0.
StyleBlockEnd(s, i) ==
  IF StyleTagEnd(s, i) = 0 THEN 0
  ELSE FirstIn(s, StyleTagEnd(s, i) + 1, {"</style>"})

RECURSIVE ExtractInline(_, _, _)
\* Step 1 of extractCssVars: every style attribute, in document order.
ExtractInline(s, i, table) ==
  IF i > Len(s) THEN table
  ELSE LET p == StyleAttrEnd(s, i)
       IN  IF p = 0 THEN ExtractInline(s, i + 1, table)
           ELSE ExtractInline(s, p + 1,
                  InlineDecls(SubSeq(s, i + 2, p - 1), 1, table))

RECURSIVE SortRules(_, _)
\* The loop over the rules of one block: global rules feed the global
\* table, the others are pushed to scoped.
SortRules(rules, acc) ==
  IF rules = <<>> THEN acc
  ELSE LET rule == Head(rules)
       IN  IF isGlobal(rule.selector)
           THEN SortRules(Tail(rules),
                  [acc EXCEPT !.global = Merge(@, rule.declarations)])
           ELSE SortRules(Tail(rules),
                  [acc EXCEPT !.scoped = Append(@, rule)])

RECURSIVE ExtractBlocks(_, _, _)
\* Step 2 of extractCssVars: every <style> block, in document order.
ExtractBlocks(s, i, acc) ==
  IF i > Len(s) THEN acc
  ELSE LET e == StyleBlockEnd(s, i)
       IN  IF e = 0 THEN ExtractBlocks(s, i + 1, acc)
           ELSE ExtractBlocks(s, e + 1,
                  SortRules(parseCssRules(
                      SubSeq(s, StyleTagEnd(s, i) + 1, e - 1), 1), acc))

extractCssVars(s) ==
  ExtractBlocks(s, 1,
    [inline |-> ExtractInline(s, 1, EmptyTable),
     scoped |-> <<>>,
     global |-> EmptyTable])

(***************************************************************************)
(* The palette of flattenSvg.                                              *)
(***************************************************************************)
PublicNames == {"bg", "fg", "line", "accent", "muted", "surface", "border"}

InternalNames ==
  {"--_text", "--_text-sec", "--_text-muted", "--_text-faint", "--_line",
   "--_arrow", "--_node-fill", "--_node-stroke", "--_group-fill",
   "--_group-hdr", "--_inner-stroke", "--_key-badge"}

Dashed(X) == "--" \o X

\* Object.keys(computed)
SlotNames == {Dashed(X) : X \in PublicNames} \cup InternalNames

\* { ...cssVars.global, ...cssVars.inline, ...colors }
EffectiveVars(cv, overrides) == Merge(Merge(cv.global, cv.inline), overrides)

\* A property read used as an operand of ||: undefined and '' are falsy.
Truthy(ev, k) == k \in DOMAIN ev /\ ev[k] # ""

\* effectiveVars.X || effectiveVars['--X'] || fallback
Pick(ev, X, fallback) ==
  IF Truthy(ev, X) THEN ev[X]
  ELSE IF Truthy(ev, Dashed(X)) THEN ev[Dashed(X)]
  ELSE fallback

\* A palette whose derived slots are fixed colours (the mixes of the
\* built-in fg and bg) instead of mixes of the resolved fg and bg.
FixedPalette(cv, overrides) ==
  LET ev == EffectiveVars(cv, overrides)
      bg == Pick(ev, "bg", "#FFFFFF")
      fg == Pick(ev, "fg", "#27272A")
      dfg == "#27272A"
      dbg == "#FFFFFF"
      line == Pick(ev, "line", mixColors(dfg, dbg, 30))
      accent == Pick(ev, "accent", mixColors(dfg, dbg, 50))
      muted == Pick(ev, "muted", mixColors(dfg, dbg, 40))
      surface == Pick(ev, "surface", mixColors(dfg, dbg, 3))
      border == Pick(ev, "border", mixColors(dfg, dbg, 20))
  IN  [n \in SlotNames |->
        CASE n \in {"--bg", "--_group-fill"} -> bg
          [] n \in {"--fg", "--_text"} -> fg
          [] n \in {"--line", "--_line"} -> line
          [] n \in {"--accent", "--_arrow"} -> accent
          [] n \in {"--muted", "--_text-sec", "--_text-muted"} -> muted
          [] n \in {"--surface", "--_node-fill"} -> surface
          [] n \in {"--border", "--_node-stroke"} -> border
          [] n = "--_text-faint" -> mixColors(dfg, dbg, 25)
          [] n = "--_group-hdr" -> mixColors(dfg, dbg, 5)
          [] n = "--_inner-stroke" -> mixColors(dfg, dbg, 12)
          [] n = "--_key-badge" -> mixColors(dfg, dbg, 10)]

\* A palette whose internal slots can be supplied like the public ones: an
\* override or a declaration of --_text (or an override _text) is used for
\* the slot instead of fg, and likewise for the other internal slots.
OverridablePalette(cv, overrides) ==
  LET ev == EffectiveVars(cv, overrides)
      bg == Pick(ev, "bg", "#FFFFFF")
      fg == Pick(ev, "fg", "#27272A")
      line == Pick(ev, "line", mixColors(fg, bg, 30))
      accent == Pick(ev, "accent", mixColors(fg, bg, 50))
      muted == Pick(ev, "muted", mixColors(fg, bg, 40))
      surface == Pick(ev, "surface", mixColors(fg, bg, 3))
      border == Pick(ev, "border", mixColors(fg, bg, 20))
      own(n, v) == Pick(ev, SubSeq(n, 3, Len(n)), v)
  IN  [n \in SlotNames |->
        CASE n = "--bg" -> bg
          [] n = "--fg" -> fg
          [] n = "--line" -> line
          [] n = "--accent" -> accent
          [] n = "--muted" -> muted
          [] n = "--surface" -> surface
          [] n = "--border" -> border
          [] n = "--_text" -> own(n, fg)
          [] n = "--_text-sec" -> own(n, muted)
          [] n = "--_text-muted" -> own(n, muted)
          [] n = "--_text-faint" -> own(n, mixColors(fg, bg, 25))
          [] n = "--_line" -> own(n, line)
          [] n = "--_arrow" -> own(n, accent)
          [] n = "--_node-fill" -> own(n, surface)
          [] n = "--_node-stroke" -> own(n, border)
          [] n = "--_group-fill" -> own(n, bg)
          [] n = "--_group-hdr" -> own(n, mixColors(fg, bg, 5))
          [] n = "--_inner-stroke" -> own(n, mixColors(fg, bg, 12))
          [] n = "--_key-badge" -> own(n, mixColors(fg, bg, 10))]

Palette(cv, overrides) ==
  LET ev == EffectiveVars(cv, overrides)
      bg == Pick(ev, "bg", "#FFFFFF")
      fg == Pick(ev, "fg", "#27272A")
      line == Pick(ev, "line", mixColors(fg, bg, 30))
      accent == Pick(ev, "accent", mixColors(fg, bg, 50))
      muted == Pick(ev, "muted", mixColors(fg, bg, 40))
      surface == Pick(ev, "surface", mixColors(fg, bg, 3))
      border == Pick(ev, "border", mixColors(fg, bg, 20))
  IN  [n \in SlotNames |->
        CASE n = "--bg" -> bg
          [] n = "--fg" -> fg
          [] n = "--line" -> line
          [] n = "--accent" -> accent
          [] n = "--muted" -> muted
          [] n = "--surface" -> surface
          [] n = "--border" -> border
          [] n = "--_text" -> fg
          [] n = "--_text-sec" -> muted
          [] n = "--_text-muted" -> muted
          [] n = "--_text-faint" -> mixColors(fg, bg, 25)
          [] n = "--_line" -> line
          [] n = "--_arrow" -> accent
          [] n = "--_node-fill" -> surface
          [] n = "--_node-stroke" -> border
          [] n = "--_group-fill" -> bg
          [] n = "--_group-hdr" -> mixColors(fg, bg, 5)
          [] n = "--_inner-stroke" -> mixColors(fg, bg, 12)
          [] n = "--_key-badge" -> mixColors(fg, bg, 10)]

(***************************************************************************)
(* Pass 1: substitution of var(...) references to palette slots.           *)
(***************************************************************************)
\* (?![^(]*\)) at position q: no ")" comes before the next "(".
NegLookahead(s, q) ==
  LET n == FirstIn(s, q, {"(", ")"})
  IN  n = 0 \/ s[n] = "("

RECURSIVE GreedyClose(_, _)
\* A greedy body, [\s\S]* in place of [\s\S]*? : the last ")" at which
\* the look-ahead succeeds.
GreedyClose(s, p) ==
  LET q == FirstIn(s, p, {")"})
  IN  IF q = 0 THEN 0
      ELSE LET r == GreedyClose(s, q + 1)
           IN  IF r # 0 THEN r
               ELSE IF NegLookahead(s, q + 1) THEN q
               ELSE 0

RECURSIVE FirstClose(_, _)
\* ([\s\S]*?)\)(?![^(]*\)) from position p: the lazy body stops at the
\* first ")" at which the look-ahead succeeds.  0 when there is none.
FirstClose(s, p) ==
  LET q == FirstIn(s, p, {")"})
  IN  IF q = 0 THEN 0
      ELSE IF NegLookahead(s, q + 1) THEN q
      ELSE FirstClose(s, q + 1)

\* varRegex at position i: the position of the ")" that ends the match, or
\* 0 when the expression does not match there.
VarMatchEnd(s, i) ==
  IF i + 3 <= Len(s) /\ s[i] = "var" /\ s[i + 1] = "(" /\ s[i + 2] \in SlotNames
  THEN IF s[i + 3] = ")"
       THEN (IF NegLookahead(s, i + 4) THEN i + 3 ELSE 0)
       ELSE LET k == SkipSpace(s, i + 3)
            IN  IF k <= Len(s) /\ s[k] = "," THEN FirstClose(s, k + 1) ELSE 0
  ELSE 0

RECURSIVE ReplaceVars(_, _, _)
\* svg.replace(varRegex, ...) from position i on.
ReplaceVars(s, i, palette) ==
  IF i > Len(s) THEN <<>>
  ELSE LET e == VarMatchEnd(s, i)
       IN  IF e # 0
           THEN <<palette[s[i + 2]]>> \o ReplaceVars(s, e + 1, palette)
           ELSE <<s[i]>> \o ReplaceVars(s, i + 1, palette)

(***************************************************************************)
(* Pass 2: custom properties removed from style attributes.                *)
(***************************************************************************)
RECURSIVE SplitSemi(_)
\* styleContent.split(';')
SplitSemi(c) ==
  LET semi == FirstIn(c, 1, {";"})
  IN  IF semi = 0 THEN <<c>>
      ELSE <<SubSeq(c, 1, semi - 1)>> \o SplitSemi(SubSeq(c, semi + 1, Len(c)))

RECURSIVE TrimAll(_)
\* .map(part => part.trim()).filter(part => part.length > 0)
TrimAll(parts) ==
  IF parts = <<>> THEN <<>>
  ELSE LET part == TrimToks(Head(parts))
       IN  IF part = <<>> THEN TrimAll(Tail(parts))
           ELSE <<part>> \o TrimAll(Tail(parts))

\* The filter of the attribute cleanup: is the declaration kept ?
KeepDecl(part) ==
  LET colonIndex == FirstIn(part, 1, {":"})
      propName == Flat(TrimToks(SubSeq(part, 1, colonIndex - 1)))
  IN  IF colonIndex = 0 THEN TRUE
      ELSE IF ~StartsDashed(propName) THEN TRUE
      ELSE propName \notin SlotNames

RECURSIVE KeptDecls(_)
KeptDecls(parts) ==
  IF parts = <<>> THEN <<>>
  ELSE IF KeepDecl(Head(parts)) THEN <<Head(parts)>> \o KeptDecls(Tail(parts))
  ELSE KeptDecls(Tail(parts))

RECURSIVE JoinDecls(_)
\* kept.join('; ')
JoinDecls(kept) ==
  IF Len(kept) = 1 THEN kept[1]
  ELSE kept[1] \o <<";", " ">> \o JoinDecls(Tail(kept))

\* The replacement of one style attribute.
CleanStyleAttr(quote, styleContent) ==
  LET kept == KeptDecls(TrimAll(SplitSemi(styleContent)))
  IN  IF kept = <<>> THEN <<>>
      ELSE <<"style=", quote>> \o JoinDecls(kept) \o <<quote>>

RECURSIVE CleanAttrs(_, _)
\* flatSvg.replace(/style=(["'])([^"']*?)\1/g, ...) from position i on.
CleanAttrs(s, i) ==
  IF i > Len(s) THEN <<>>
  ELSE LET p == StyleAttrEnd(s, i)
       IN  IF p # 0
           THEN CleanStyleAttr(s[i + 1], SubSeq(s, i + 2, p - 1))
                  \o CleanAttrs(s, p + 1)
           ELSE <<s[i]>> \o CleanAttrs(s, i + 1)

(***************************************************************************)
(* Pass 3: style blocks.                                                   *)
(***************************************************************************)
\* /@import\s+url\([^)]+\);?/ at position i: the last position of the
\* match, or 0.
ImportUrlEnd(c, i) ==
  LET k == SkipSpace(c, i + 1)
      close == FirstIn(c, k + 2, {")"})
  IN  IF /\ c[i] = "@import" /\ k > i + 1 /\ k + 1 <= Len(c)
         /\ c[k] = "url" /\ c[k + 1] = "(" /\ close >= k + 3
      THEN (IF close + 1 <= Len(c) /\ c[close + 1] = ";"
            THEN close + 1 ELSE close)
      ELSE 0

\* /@import\s+["'][^"']+["'];?/ at position i.
ImportStrEnd(c, i) ==
  LET k == SkipSpace(c, i + 1)
      close == FirstIn(c, k + 1, Quotes)
  IN  IF /\ c[i] = "@import" /\ k > i + 1 /\ k <= Len(c)
         /\ c[k] \in Quotes /\ close >= k + 2
      THEN (IF close + 1 <= Len(c) /\ c[close + 1] = ";"
            THEN close + 1 ELSE close)
      ELSE 0

\* new RegExp(`\\s*(names)\\s*:\\s*[^;]*?;`) at position i: the position of
\* the ";" that ends the match, or 0.
RemoveDeclEnd(c, i) ==
  LET k == SkipSpace(c, i)
      colon == SkipSpace(c, k + 1)
  IN  IF /\ k <= Len(c) /\ c[k] \in SlotNames
         /\ colon <= Len(c) /\ c[colon] = ":"
      THEN FirstIn(c, colon + 1, {";"})
      ELSE 0

RECURSIVE LastNewline(_, _, _)
\* The last "\n" of the white space run that starts at position i, or
\* `found` when the run holds none.
LastNewline(c, i, found) ==
  IF i > Len(c) \/ ~IsSpace(c[i]) THEN found
  ELSE LastNewline(c, i + 1, IF c[i] = "\n" THEN i ELSE found)

\* /\n\s*\n/ at position i: the position of the closing "\n", or 0.
BlankLinesEnd(c, i) ==
  IF c[i] = "\n" THEN LastNewline(c, i + 1, 0) ELSE 0

\* /[^{}]+?\{\s*\}/ at position i: the position of the "}", or 0.
EmptyRuleEnd(c, i) ==
  LET b == FirstIn(c, i, {"{", "}"})
      close == SkipSpace(c, b + 1)
  IN  IF /\ b > i /\ c[b] = "{" /\ close <= Len(c) /\ c[close] = "}"
      THEN close
      ELSE 0

\* The end of the match of the regular expression `kind` at position i.
MatchEnd(kind, c, i) ==
  CASE kind = "importUrl" -> ImportUrlEnd(c, i)
    [] kind = "importStr" -> ImportStrEnd(c, i)
    [] kind = "decl" -> RemoveDeclEnd(c, i)
    [] kind = "blank" -> BlankLinesEnd(c, i)
    [] kind = "emptyRule" -> EmptyRuleEnd(c, i)

RECURSIVE ReplaceAll(_, _, _, _)
\* c.replace(regex, repl) with the g flag, from position i on.
ReplaceAll(kind, c, i, repl) ==
  IF i > Len(c) THEN <<>>
  ELSE LET e == MatchEnd(kind, c, i)
       IN  IF e # 0 THEN repl \o ReplaceAll(kind, c, e + 1, repl)
           ELSE <<c[i]>> \o ReplaceAll(kind, c, i + 1, repl)

\* .replace(/\n\s*\n/g, '\n').trim()
CollapseAndTrim(c) == TrimToks(ReplaceAll("blank", c, 1, <<"\n">>))

\* The cleaned content of one style block.
CleanedContent(styleContent) ==
  LET noImports ==
        ReplaceAll("importStr",
                   ReplaceAll("importUrl", styleContent, 1, <<>>), 1, <<>>)
      noDecls == ReplaceAll("decl", noImports, 1, <<>>)
      tidy == CollapseAndTrim(noDecls)
  IN  CollapseAndTrim(ReplaceAll("emptyRule", tidy, 1, <<>>))

\* /[^{}\s]/.test(cleanedContent)
hasContent(c) == \E k \in 1..Len(c) : c[k] \notin {"{", "}"} /\ ~IsSpace(c[k])

\* The replacement of one style block.
CleanStyleBlock(styleContent) ==
  LET cleanedContent == CleanedContent(styleContent)
  IN  IF ~hasContent(cleanedContent) THEN <<>>
      ELSE <<"<style", ">">> \o cleanedContent \o <<"</style>">>

RECURSIVE CleanBlocks(_, _)
\* flatSvg.replace(/<style[^>]*>([\s\S]*?)<\/style>/gi, ...) from i on.
CleanBlocks(s, i) ==
  IF i > Len(s) THEN <<>>
  ELSE LET e == StyleBlockEnd(s, i)
       IN  IF e # 0
           THEN CleanStyleBlock(SubSeq(s, StyleTagEnd(s, i) + 1, e - 1))
                  \o CleanBlocks(s, e + 1)
           ELSE <<s[i]>> \o CleanBlocks(s, i + 1)

\* flattenSvg as a function of the document and the overrides.
flattenSvg(doc, overrides) ==
  LET palette == Palette(extractCssVars(doc), overrides)
  IN  CleanBlocks(CleanAttrs(ReplaceVars(doc, 1, palette), 1), 1)

(***************************************************************************)
(* The state machine: one call of flattenSvg(svg, colors), pass by pass.   *)
(***************************************************************************)
\* const cssVars = extractCssVars(svg)
Extract ==
  /\ pc = "start"
  /\ cssVars' = extractCssVars(svg)
  /\ pc' = "extracted"
  /\ UNCHANGED <<svg, colors, computed, flatSvg>>
  /\ UNCHANGED helperVars

\* effectiveVars and computed
Resolve ==
  /\ pc = "extracted"
  /\ computed' = Palette(cssVars, colors)
  /\ pc' = "resolved"
  /\ UNCHANGED <<svg, colors, cssVars, flatSvg>>
  /\ UNCHANGED helperVars

\* let flatSvg = svg.replace(varRegex, ...)
SubstituteVars ==
  /\ pc = "resolved"
  /\ flatSvg' = ReplaceVars(svg, 1, computed)
  /\ pc' = "substituted"
  /\ UNCHANGED <<svg, colors, cssVars, computed>>
  /\ UNCHANGED helperVars

\* flatSvg = flatSvg.replace(/style=.../g, ...)
CleanStyleAttrs ==
  /\ pc = "substituted"
  /\ flatSvg' = CleanAttrs(flatSvg, 1)
  /\ pc' = "attrs"
  /\ UNCHANGED <<svg, colors, cssVars, computed>>
  /\ UNCHANGED helperVars

\* flatSvg = flatSvg.replace(/<style.../gi, ...); return flatSvg
CleanStyleBlocks ==
  /\ pc = "attrs"
  /\ flatSvg' = CleanBlocks(flatSvg, 1)
  /\ pc' = "done"
  /\ UNCHANGED <<svg, colors, cssVars, computed>>
  /\ UNCHANGED helperVars

Next ==
  \/ Extract
  \/ Resolve
  \/ SubstituteVars
  \/ CleanStyleAttrs
  \/ CleanStyleBlocks

\* The state at the call of flattenSvg(doc, overrides).
Call(doc, overrides) ==
  /\ svg = doc
  /\ colors = overrides
  /\ pc = "start"
  /\ cssVars = [inline |-> EmptyTable, scoped |-> <<>>, global |-> EmptyTable]
  /\ computed = EmptyTable
  /\ flatSvg = <<>>
  /\ args = <<>>
  /\ result = <<>>
  /\ env = <<>>

SeqsUpTo(S, n) == UNION {[1..k -> S] : k \in 0..n}

\* A <rect> that uses the slots bg and line.
UseRect ==
  <<"<rect", " ", "fill=", "\"", "var", "(", "--bg", ")", "\"", " ",
    "stroke=", "\"", "var", "(", "--line", ")", "\"", "/", ">">>

(***************************************************************************)
(* Documents and overrides for the resolution order: for the names bg and  *)
(* line, each of the four sources is absent, empty or present.             *)
(***************************************************************************)
ResolveNames == <<"bg", "line">>

Sources == {"bare", "dashed", "inline", "global"}

Presence == {"absent", "empty", "present"}

\* A distinct colour for every (name, source).
SourceValue(X, src) ==
  (IF X = "bg" THEN "#a" ELSE "#b")
    \o (CASE src = "bare" -> "1" [] src = "dashed" -> "2"
          [] src = "inline" -> "3" [] src = "global" -> "4")
    \o "0000"

\* The declaration of --X from source src: "--X: value;" or "--X: ;".
SourceDecl(X, src, how) ==
  IF how = "absent" THEN <<>>
  ELSE IF how = "empty" THEN <<Dashed(X), ":", " ", ";">>
  ELSE <<Dashed(X), ":", " ", SourceValue(X, src), ";">>

ResolveDecls(given, src) ==
  SourceDecl("bg", src, given[<<"bg", src>>])
    \o SourceDecl("line", src, given[<<"line", src>>])

ResolveDoc(given) ==
  LET inl == ResolveDecls(given, "inline")
      glo == ResolveDecls(given, "global")
  IN  <<"<svg">>
        \o (IF inl = <<>> THEN <<>> ELSE <<" ", "style=", "\"">> \o inl \o <<"\"">>)
        \o <<">">>
        \o (IF glo = <<>> THEN <<>>
            ELSE <<"<style", ">", ":", "root", " ", "{", " ">> \o glo
                   \o <<"}", "</style>">>)
        \o UseRect

ResolveKeys ==
  {<<"bg", "bare">>, <<"bg", "dashed">>, <<"line", "bare">>, <<"line", "dashed">>}

KeyOf(ks) == IF ks[2] = "bare" THEN ks[1] ELSE Dashed(ks[1])

ResolveOverrides(given) ==
  LET present == {ks \in ResolveKeys : given[ks] # "absent"}
  IN  [k \in {KeyOf(ks) : ks \in present} |->
        LET ks == CHOOSE c \in present : KeyOf(c) = k
        IN  IF given[ks] = "empty" THEN "" ELSE SourceValue(ks[1], ks[2])]

InitResolve ==
  \E given \in [{"bg", "line"} \X Sources -> Presence] :
    Call(ResolveDoc(given), ResolveOverrides(given))

SpecResolve == InitResolve /\ [][Next]_vars

(***************************************************************************)
(* Documents for the substitution pass: up to MaxVarPieces pieces.         *)
(***************************************************************************)
VarPieces ==
  { <<"var", "(", "--fg", ")">>,               \* var(--fg)
    <<"var", "(", "--bg", ",", " ", "x">>,     \* var(--bg, x    (left open)
    <<")">>,
    <<"rgb", "(", "0", ")">>,                  \* rgb(0)
    <<"calc", "(">>,                           \* calc(          (left open)
    <<"var", "(", "--m", ")">>,                \* var(--m)
    <<"var", "(", "--m", ",", " ", "y">>,      \* var(--m, y     (left open)
    <<" ", "t", " ">> }

InitVar ==
  \E ps \in SeqsUpTo(VarPieces, MaxVarPieces) : Call(Concat(ps), EmptyTable)

SpecVar == InitVar /\ [][Next]_vars

(***************************************************************************)
(* Documents for the attribute cleanup: <g style=q ... q> with up to       *)
(* MaxAttrPieces pieces between the quotes, q either quote character.      *)
(***************************************************************************)
OtherQuote(q) == IF q = "\"" THEN "'" ELSE "\""

AttrPieces(q) ==
  { <<"--bg", ":", " ", "#111111">>,
    <<"--m", ":", " ", "5">>,
    <<"color", ":", " ", "red">>,
    <<";">>,
    <<";", " ">>,
    <<"font-family", ":", " ", OtherQuote(q), "Inter", OtherQuote(q)>> }

AttrDoc(q, ps) ==
  <<"<g", " ", "style=", q>> \o Concat(ps) \o <<q, ">">> \o UseRect

InitAttr ==
  \E q \in Quotes : \E ps \in SeqsUpTo(AttrPieces(q), MaxAttrPieces) :
    Call(AttrDoc(q, ps), EmptyTable)

SpecAttr == InitAttr /\ [][Next]_vars

(***************************************************************************)
(* Documents for the style block cleanup: one <style> block of up to       *)
(* MaxRules rules, each possibly wrapped in @media print { }, followed by  *)
(* a <rect> that uses the slots.                                           *)
(***************************************************************************)
Selectors == {"root", "dark", "rect"}

SelectorToks(sel) ==
  CASE sel = "root" -> <<":", "root">>
    [] sel = "dark" -> <<".dark">>
    [] sel = "rect" -> <<"rect">>

DeclKinds == {"slot", "slotOpen", "other", "plain"}

\* A declaration: of the slot --bg, of the slot --bg without the closing
\* semicolon, of the custom property --btn--bg, of the property fill.
DeclToks(kind, sel) ==
  CASE kind = "slot" ->
         <<"--bg", ":", " ",
           (CASE sel = "root" -> "#111111" [] sel = "dark" -> "#1a1a1a"
              [] sel = "rect" -> "#0000ff"), ";", " ">>
    [] kind = "slotOpen" -> <<"--bg", ":", " ", "#222222", " ">>
    [] kind = "other" -> <<"--btn", "--bg", ":", " ", "#333333", ";", " ">>
    [] kind = "plain" -> <<"fill", ":", " ", "red", ";", " ">>

\* Lists of declarations; one without semicolon can only be the last.
DeclLists ==
  {ds \in SeqsUpTo(DeclKinds, 2) :
     \A k \in 1..Len(ds) : ds[k] = "slotOpen" => k = Len(ds)}

RuleShapes == [media : BOOLEAN, sel : Selectors, decls : DeclLists]

RECURSIVE DeclsToks(_, _)
DeclsToks(ds, sel) ==
  IF ds = <<>> THEN <<>>
  ELSE DeclToks(Head(ds), sel) \o DeclsToks(Tail(ds), sel)

RuleToks(r) ==
  (IF r.media THEN <<"@media", " ", "print", " ", "{", " ">> ELSE <<>>)
    \o SelectorToks(r.sel) \o <<" ", "{", " ">> \o DeclsToks(r.decls, r.sel)
    \o <<"}">>
    \o (IF r.media THEN <<" ", "}">> ELSE <<>>)
    \o <<"\n">>

RECURSIVE RulesToks(_)
RulesToks(rs) ==
  IF rs = <<>> THEN <<>> ELSE RuleToks(Head(rs)) \o RulesToks(Tail(rs))

BlockDoc(rs) ==
  <<"<style", ">", "\n">> \o RulesToks(rs) \o <<"</style>">> \o UseRect

InitBlock ==
  \E rs \in SeqsUpTo(RuleShapes, MaxRules) : Call(BlockDoc(rs), EmptyTable)

SpecBlock == InitBlock /\ [][Next]_vars

(***************************************************************************)
(* Documents and overrides for the palette: the overrides bg, fg and line  *)
(* and the global declaration of --fg are absent or hold a 6-digit colour, *)
(* a 3-digit colour, a colour keyword or a var() expression.               *)
(***************************************************************************)
GivenKinds == {"absent", "hex6", "hex3", "keyword", "var"}

\* The value of a kind, as the text of an override.
GivenText(kind, hex6) ==
  CASE kind = "hex6" -> hex6
    [] kind = "hex3" -> "#ABC"
    [] kind = "keyword" -> "red"
    [] kind = "var" -> "var(--x)"

\* The value of a kind, as the tokens of a declaration's value.
GivenToks(kind, hex6) ==
  IF kind = "var" THEN <<"var", "(", "--x", ")">>
  ELSE <<GivenText(kind, hex6)>>

PaletteOverrides(b, f, l) ==
  LET keys == (IF b = "absent" THEN {} ELSE {"bg"})
                \cup (IF f = "absent" THEN {} ELSE {"fg"})
                \cup (IF l = "absent" THEN {} ELSE {"line"})
  IN  [k \in keys |->
        CASE k = "bg" -> GivenText(b, "#112233")
          [] k = "fg" -> GivenText(f, "#DDEEFF")
          [] k = "line" -> GivenText(l, "#778899")]

PaletteDoc(g) ==
  <<"<svg", ">">>
    \o (IF g = "absent" THEN <<>>
        ELSE <<"<style", ">", ":", "root", " ", "{", " ", "--fg", ":", " ">>
               \o GivenToks(g, "#445566") \o <<";", " ", "}", "</style>">>)
    \o UseRect \o <<"</svg>">>

InitPalette ==
  \E b \in GivenKinds, f \in GivenKinds, l \in GivenKinds, g \in GivenKinds :
    Call(PaletteDoc(g), PaletteOverrides(b, f, l))

SpecPalette == InitPalette /\ [][Next]_vars

(***************************************************************************)
(* Calls of the other exported functions.  A call starts with pc naming    *)
(* the function and args holding its arguments, and ends with the result.  *)
(***************************************************************************)
\* The state at the call of function fn with arguments a.
HelperCall(fn, a) ==
  /\ pc = fn
  /\ args = a
  /\ result = <<>>
  /\ env = <<>>
  /\ svg = <<>>
  /\ colors = EmptyTable
  /\ cssVars = [inline |-> EmptyTable, scoped |-> <<>>, global |-> EmptyTable]
  /\ computed = EmptyTable
  /\ flatSvg = <<>>

\* JavaScript values that are arguments: a string, or a value of another
\* type with its String() form.
Str(v) == [type |-> "string", value |-> v]

Num(v) == [type |-> "number", value |-> v]

JsNull == [type |-> "object", value |-> "null"]

JsUndefined == [type |-> "undefined", value |-> "undefined"]

\* mixColors(fg, bg, ratio), the ratio in hundredths.
MixColorsCall ==
  /\ pc = "mixColors"
  /\ result' = mixColors(args[1], args[2], args[3])
  /\ pc' = "mixed"
  /\ UNCHANGED <<args, env>>
  /\ UNCHANGED flattenVars

\* hexToRgb(hex)
HexToRgbCall ==
  /\ pc = "hexToRgb"
  /\ result' = IF args[1].type # "string" THEN Null
               ELSE hexToRgb(args[1].value)
  /\ pc' = "parsed"
  /\ UNCHANGED <<args, env>>
  /\ UNCHANGED flattenVars

\* rgbToHex(r, g, b) on the channels hexToRgb returned.
RgbToHexCall ==
  /\ pc = "parsed"
  /\ result # Null
  /\ result' = rgbToHex(result[1], result[2], result[3])
  /\ pc' = "formatted"
  /\ UNCHANGED <<args, env>>
  /\ UNCHANGED flattenVars

(***************************************************************************)
(* Arguments of mixColors.                                                 *)
(***************************************************************************)
\* Ratios, in hundredths: those flattenSvg uses, 0, 1 and two outside [0, 1].
Ratios == {0, 3, 5, 10, 12, 20, 25, 30, 40, 50, 100, -50, 150}

MixInputs ==
  {"#000000", "#FFFFFF", "#27272A", "#ff0000", "#00FF00", "#0000ff",
   "#808080", "#123456", "#abcdef", "#FEDCBA", "#7f7f7f", "#010203",
   "#FFF", "#0a0", "abc", "ABCDEF", "27272a"}

InitMix ==
  \E fg \in MixInputs, bg \in MixInputs, pct \in Ratios :
    HelperCall("mixColors", <<fg, bg, pct>>)

NextMix == MixColorsCall

SpecMix == InitMix /\ [][NextMix]_vars

(***************************************************************************)
(* Arguments of mixColors some of which are no hex colour: a keyword, a    *)
(* var() expression, the empty string, 5 or 7 digits, a letter that is no  *)
(* hexadecimal digit.                                                      *)
(***************************************************************************)
MixTexts ==
  {"red", "Red", "var(--x)", "", "#12345", "#1234567", "#GGGGGG",
   " #FFF ", "#ABCDEF", "#fff"}

InitMixText ==
  \E fg \in MixTexts, bg \in MixTexts, pct \in Ratios :
    HelperCall("mixColors", <<fg, bg, pct>>)

SpecMixText == InitMixText /\ [][NextMix]_vars

(***************************************************************************)
(* Arguments of hexToRgb: strings of up to MaxHexDigits characters after   *)
(* an optional "#", possibly padded with white space, and values that are  *)
(* no strings.                                                             *)
(***************************************************************************)
HexAlphabet == {"0", "a", "F", "g"}

HexBodies == SeqsUpTo(HexAlphabet, MaxHexDigits)

HexText(hash, padded, body) ==
  (IF padded THEN " " ELSE "")
    \o (IF hash THEN "#" ELSE "") \o Flat(body)
    \o (IF padded THEN "\n" ELSE "")

NonStrings == {Num("255"), Num("123456"), JsNull, JsUndefined}

InitHex ==
  \/ \E hash \in BOOLEAN, padded \in BOOLEAN, body \in HexBodies :
       HelperCall("hexToRgb", <<Str(HexText(hash, padded, body))>>)
  \/ \E v \in NonStrings : HelperCall("hexToRgb", <<v>>)

NextHex ==
  \/ HexToRgbCall
  \/ RgbToHexCall

SpecHex == InitHex /\ [][NextHex]_vars

(***************************************************************************)
(* validateWidth.                                                          *)
(***************************************************************************)
Digits == <<"0", "1", "2", "3", "4", "5", "6", "7", "8", "9">>

IsDigit(c) == \E n \in 1..10 : Digits[n] = c

DigitVal(c) == (CHOOSE n \in 1..10 : Digits[n] = c) - 1

NaN == [nan |-> TRUE, n |-> 0]

RECURSIVE ParseDigits(_, _, _)
\* The digits of str from position i on, read as a decimal number onto acc,
\* up to the first character that is no digit.
ParseDigits(str, i, acc) ==
  IF i > Len(str) \/ ~IsDigit(SubSeq(str, i, i)) THEN acc
  ELSE ParseDigits(str, i + 1, 10 * acc + DigitVal(SubSeq(str, i, i)))

RECURSIVE SkipBlanks(_, _)
SkipBlanks(str, i) ==
  IF i <= Len(str) /\ SubSeq(str, i, i) \in Space THEN SkipBlanks(str, i + 1)
  ELSE i

\* parseInt(str, 10): leading white space is skipped, a sign is read, then
\* as many decimal digits as there are; NaN when there is none.
parseInt(str) ==
  LET i == SkipBlanks(str, 1)
      signed == i <= Len(str) /\ SubSeq(str, i, i) \in {"-", "+"}
      j == IF signed THEN i + 1 ELSE i
      n == ParseDigits(str, j, 0)
  IN  IF j > Len(str) \/ ~IsDigit(SubSeq(str, j, j)) THEN NaN
      ELSE [nan |-> FALSE,
            n |-> IF signed /\ SubSeq(str, i, i) = "-" THEN -n ELSE n]

\* A validateWidth whose bounds are exclusive.
validateWidthExclusive(width, defaultWidth) ==
  LET parsed == parseInt(width.value)
  IN  IF parsed.nan \/ parsed.n <= 100 \/ parsed.n >= 10000 THEN defaultWidth
      ELSE parsed.n

\* validateWidth(width, defaultWidth), width a value with its String() form.
validateWidth(width, defaultWidth) ==
  LET parsed == parseInt(width.value)
  IN  IF parsed.nan \/ parsed.n < 100 \/ parsed.n > 10000 THEN defaultWidth
      ELSE parsed.n

\* The second argument: given, or left out.
Given(n) == [given |-> TRUE, n |-> n]

Omitted == [given |-> FALSE, n |-> 0]

\* defaultWidth = 800
DefaultWidth(d) == IF d.given THEN d.n ELSE 800

ValidateWidthCall ==
  /\ pc = "validateWidth"
  /\ result' = validateWidth(args[1], DefaultWidth(args[2]))
  /\ pc' = "validated"
  /\ UNCHANGED <<args, env>>
  /\ UNCHANGED flattenVars

\* Widths: every string of up to MaxWidthLen characters of WidthAlphabet,
\* and some more strings, numbers, null and undefined.
WidthAlphabet == {"1", "0", "9", "x", " "}

MoreWidths ==
  {Str("-500"), Str("+500"), Str("150.7"), Str("1e3"), Str("not a number"),
   Num("500"), Num("99"), Num("-200"), Num("10000.5"), Num("99.9"),
   Num("50000"), Num("1e+21"), Num("NaN"), Num("Infinity"),
   JsNull, JsUndefined}

Widths ==
  {Str(Flat(t)) : t \in SeqsUpTo(WidthAlphabet, MaxWidthLen)} \cup MoreWidths

InitWidth ==
  \E w \in Widths, d \in {Omitted, Given(50)} :
    HelperCall("validateWidth", <<w, d>>)

NextWidth == ValidateWidthCall

SpecWidth == InitWidth /\ [][NextWidth]_vars

(***************************************************************************)
(* svgToPng(svg, outputPath, width).  The file system and the converter    *)
(* process answer as they please: env records what happened.               *)
(***************************************************************************)
\* What spawnSync can return: an error with its code, or the exit status
\* of the process ("null" when a signal ended it).
SpawnOutcomes ==
  {[error |-> "none", status |-> "0"],
   [error |-> "none", status |-> "1"],
   [error |-> "none", status |-> "2"],
   [error |-> "none", status |-> "null"],
   [error |-> "ENOENT", status |-> "null"],
   [error |-> "EACCES", status |-> "null"],
   [error |-> "ETIMEDOUT", status |-> "null"]}

NotRun == [error |-> "none", status |-> "not run"]

\* A check of the spawn result that looks at result.error only.
SpawnFailureErrorOnly(outcome) ==
  IF outcome.error = "ENOENT" THEN "rsvg-convert not found on PATH"
  ELSE IF outcome.error # "none" THEN "spawn error: " \o outcome.error
  ELSE ""

\* The message of the Error the checks on the spawn result throw, or "".
SpawnFailure(outcome) ==
  IF outcome.error = "ENOENT" THEN "rsvg-convert not found on PATH"
  ELSE IF outcome.error # "none" THEN "spawn error: " \o outcome.error
  ELSE IF outcome.status # "0"
    THEN "rsvg-convert exited with code " \o outcome.status
  ELSE ""

\* validateWidth(width, 800) and the name of the temporary file.
SvgToPngBegin ==
  /\ pc = "svgToPng"
  /\ env' = [validWidth |-> validateWidth(args[3], 800),
             tempFile |-> FALSE,
             written |-> FALSE,
             spawn |-> NotRun,
             thrown |-> "",
             logged |-> "",
             unlinked |-> "not tried"]
  /\ pc' = "try"
  /\ UNCHANGED <<args, result>>
  /\ UNCHANGED flattenVars

\* writeFileSync(tempSvg, svg): succeeds, or throws.
WriteTemp ==
  /\ pc = "try"
  /\ \/ /\ env' = [env EXCEPT !.tempFile = TRUE, !.written = TRUE]
        /\ pc' = "spawn"
     \/ /\ \E partial \in BOOLEAN :
             env' = [env EXCEPT !.tempFile = partial, !.thrown = "write failed"]
        /\ pc' = "catch"
  /\ UNCHANGED <<args, result>>
  /\ UNCHANGED flattenVars

\* spawnSync('rsvg-convert', [...], { timeout: 30000 })
SpawnConverter ==
  /\ pc = "spawn"
  /\ \E outcome \in SpawnOutcomes : env' = [env EXCEPT !.spawn = outcome]
  /\ pc' = "check"
  /\ UNCHANGED <<args, result>>
  /\ UNCHANGED flattenVars

\* if (result.error) throw ...; if (result.status !== 0) throw ...;
\* return true
CheckSpawn ==
  /\ pc = "check"
  /\ IF SpawnFailure(env.spawn) # ""
     THEN /\ env' = [env EXCEPT !.thrown = SpawnFailure(env.spawn)]
          /\ pc' = "catch"
          /\ UNCHANGED result
     ELSE /\ result' = TRUE
          /\ pc' = "finally"
          /\ UNCHANGED env
  /\ UNCHANGED args
  /\ UNCHANGED flattenVars

\* catch (e) { console.error(...); return false; }
CatchError ==
  /\ pc = "catch"
  /\ env' = [env EXCEPT !.logged = "PNG conversion failed: " \o env.thrown,
                        !.thrown = ""]
  /\ result' = FALSE
  /\ pc' = "finally"
  /\ UNCHANGED args
  /\ UNCHANGED flattenVars

\* finally { try { unlinkSync(tempSvg) } catch { } }: the file is removed,
\* or unlinkSync throws (always so when there is no file) and the error is
\* dropped.
Cleanup ==
  /\ pc = "finally"
  /\ \E removed \in (IF env.tempFile THEN BOOLEAN ELSE {FALSE}) :
       env' = [env EXCEPT !.tempFile = @ /\ ~removed,
                          !.unlinked = IF removed THEN "done" ELSE "failed"]
  /\ pc' = "returned"
  /\ UNCHANGED <<args, result>>
  /\ UNCHANGED flattenVars

PngWidths == {Num("800"), Num("50"), Num("20000"), Str("1200"), JsUndefined}

InitPng ==
  \E w \in PngWidths : HelperCall("svgToPng", <<"<svg/>", "out.png", w>>)

NextPng ==
  \/ SvgToPngBegin
  \/ WriteTemp
  \/ SpawnConverter
  \/ CheckSpawn
  \/ CatchError
  \/ Cleanup

SpecPng == InitPng /\ [][NextPng]_vars

(***************************************************************************)
(* render.mjs, main in PNG mode: flattenSvg, the output path, svgToPng of  *)
(* svg-utils.mjs, and the SVG written when the conversion fails.           *)
(***************************************************************************)
EndsWith(str, suffix) ==
  /\ Len(str) >= Len(suffix)
  /\ SubSeq(str, Len(str) - Len(suffix) + 1, Len(str)) = suffix

DropLast(str, n) == SubSeq(str, 1, Len(str) - n)

RECURSIVE ExtStart(_, _)
\* The start of the match of /\.[^./]+$/ in str, looked for from position
\* i down; 0 when there is none.
ExtStart(str, i) ==
  IF i < 1 \/ SubSeq(str, i, i) = "/" THEN 0
  ELSE IF SubSeq(str, i, i) = "." THEN (IF i < Len(str) THEN i ELSE 0)
  ELSE ExtStart(str, i - 1)

\* opts.output || (opts.input.match(/\.[^./]+$/)
\*   ? opts.input.replace(/\.[^./]+$/, '.png') : `${opts.input}.png`)
OutputPath(opts) ==
  IF opts.output # "" THEN opts.output
  ELSE LET e == ExtStart(opts.input, Len(opts.input))
       IN  IF e > 0 THEN SubSeq(opts.input, 1, e - 1) \o ".png"
           ELSE opts.input \o ".png"

\* A fallback path that always appends ".svg".
SvgPathAppended(outputPath) == outputPath \o ".svg"

\* outputPath.endsWith('.png') ? outputPath.replace(/\.png$/, '.svg')
\*                             : `${outputPath}.svg`
SvgPath(outputPath) ==
  IF EndsWith(outputPath, ".png") THEN DropLast(outputPath, 4) \o ".svg"
  ELSE outputPath \o ".svg"

NoFile == [path |-> "", content |-> <<>>]

\* const flatSvg = flattenSvg(svg, userColors) has returned (the steps of
\* Next); const outputPath = ...; svgToPng(flatSvg, outputPath, opts.width)
\* is called.
RenderPng ==
  /\ pc = "done"
  /\ args' = <<flatSvg, OutputPath(args), args.width>>
  /\ pc' = "svgToPng"
  /\ UNCHANGED <<result, env>>
  /\ UNCHANGED flattenVars

\* svgToPng returned true: the success is logged, main returns and the
\* process exits with status 0.
PngSaved ==
  /\ pc = "returned"
  /\ result = TRUE
  /\ result' = [converted |-> TRUE, fallback |-> NoFile, exit |-> 0]
  /\ pc' = "exited"
  /\ UNCHANGED <<args, env>>
  /\ UNCHANGED flattenVars

\* svgToPng returned false: writeFileSync(svgPath, svg), then
\* process.exit(1); when writeFileSync throws, main().catch logs the error
\* and calls process.exit(1).
SvgFallback ==
  /\ pc = "returned"
  /\ result = FALSE
  /\ \E written \in BOOLEAN :
       result' = [converted |-> FALSE,
                  fallback |-> IF written
                               THEN [path |-> SvgPath(args[2]),
                                     content |-> svg]
                               ELSE NoFile,
                  exit |-> 1]
  /\ pc' = "exited"
  /\ UNCHANGED <<args, env>>
  /\ UNCHANGED flattenVars

RenderOutputs == {"", "out.png", "out", "o.png.png"}

RenderInputs == {"d.mmd", "d", "v1.2/d"}

\* main after renderMermaid has returned the SVG, in PNG mode, at the call
\* of flattenSvg(svg, userColors).
InitRender ==
  \E output \in RenderOutputs, input \in RenderInputs,
     width \in {Num("800"), Num("1200")},
     overrides \in {EmptyTable, [k \in {"bg"} |-> "#112233"]} :
    /\ pc = "start"
    /\ svg = PaletteDoc("hex6")
    /\ colors = overrides
    /\ args = [output |-> output, input |-> input, width |-> width]
    /\ cssVars = [inline |-> EmptyTable, scoped |-> <<>>,
                  global |-> EmptyTable]
    /\ computed = EmptyTable
    /\ flatSvg = <<>>
    /\ result = <<>>
    /\ env = <<>>

NextRender ==
  \/ Next
  \/ RenderPng
  \/ NextPng
  \/ PngSaved
  \/ SvgFallback

SpecRender == InitRender /\ [][NextRender]_vars

(***************************************************************************)
(* svgToPng of batch.mjs.                                                  *)
(***************************************************************************)
\* const tempSvg = outputPath.replace(/\.png$/, '.temp.svg');
\* writeFileSync(tempSvg, svg), outside the try: when it throws, so does
\* svgToPng.
BatchWriteTemp ==
  /\ pc = "batch.svgToPng"
  /\ \/ /\ env' = [validWidth |-> args[3].value, tempFile |-> TRUE,
                   written |-> TRUE, spawn |-> NotRun, thrown |-> "",
                   logged |-> "", unlinked |-> "not tried"]
        /\ pc' = "batch.try"
     \/ /\ \E partial \in BOOLEAN :
             env' = [validWidth |-> args[3].value, tempFile |-> partial,
                     written |-> FALSE, spawn |-> NotRun,
                     thrown |-> "write failed", logged |-> "",
                     unlinked |-> "not tried"]
        /\ pc' = "thrown"
  /\ UNCHANGED <<args, result>>
  /\ UNCHANGED flattenVars

\* execSync(`rsvg-convert ...`, { timeout: 30000 }) throws unless the
\* command ran and exited with status 0.
BatchExec ==
  /\ pc = "batch.try"
  /\ \E outcome \in SpawnOutcomes :
       /\ env' = [env EXCEPT !.spawn = outcome,
                             !.thrown = SpawnFailure(outcome)]
       /\ pc' = IF SpawnFailure(outcome) = "" THEN "batch.empty"
                ELSE "batch.catch"
  /\ UNCHANGED <<args, result>>
  /\ UNCHANGED flattenVars

\* try { writeFileSync(tempSvg, ''); } catch {}  return true;
\* The file is emptied, or left as it is; it is not removed.
BatchEmptyTemp ==
  /\ pc = "batch.empty"
  /\ \E emptied \in BOOLEAN : env' = [env EXCEPT !.written = ~emptied]
  /\ result' = TRUE
  /\ pc' = "returned"
  /\ UNCHANGED args
  /\ UNCHANGED flattenVars

\* catch (e) { console.error(...); return false; }
BatchCatch ==
  /\ pc = "batch.catch"
  /\ env' = [env EXCEPT !.logged = "PNG conversion failed: " \o env.thrown,
                        !.thrown = ""]
  /\ result' = FALSE
  /\ pc' = "returned"
  /\ UNCHANGED args
  /\ UNCHANGED flattenVars

\* A call of either svgToPng.
InitTemp ==
  \E impl \in {"svgToPng", "batch.svgToPng"},
     w \in {Num("800"), Num("1200"), Num("50")} :
    HelperCall(impl, <<"<svg/>", "out/a.png", w>>)

NextTemp ==
  \/ NextPng
  \/ BatchWriteTemp
  \/ BatchExec
  \/ BatchEmptyTemp
  \/ BatchCatch

SpecTemp == InitTemp /\ [][NextTemp]_vars

(***************************************************************************)
(* Documents with no custom property and no var(): an optional <style>     *)
(* block of two rules, with or without an attribute on its tag, indented   *)
(* or not, with or without a blank line between the rules, and an element  *)
(* whose style attribute holds up to MaxPlainPieces pieces.                *)
(***************************************************************************)
PlainPieces ==
  { <<"color", ":", " ", "red">>,
    <<"fill", ":", "blue">>,
    <<";">>,
    <<";", " ">> }

BlockShapes ==
  [present : BOOLEAN, typed : BOOLEAN, indented : BOOLEAN, blank : BOOLEAN]

PlainBlock(shape) ==
  IF ~shape.present THEN <<>>
  ELSE <<"<style">>
         \o (IF shape.typed
             THEN <<" ", "media=", "\"", "print", "\"">> ELSE <<>>)
         \o <<">">>
         \o (IF shape.indented THEN <<"\n", " ", " ">> ELSE <<>>)
         \o <<"rect", " ", "{", " ", "fill", ":", " ", "red", ";", " ", "}">>
         \o (IF shape.blank THEN <<"\n", "\n">> ELSE <<"\n">>)
         \o <<"text", " ", "{", " ", "fill", ":", " ", "blue", ";", " ", "}">>
         \o (IF shape.indented THEN <<"\n">> ELSE <<>>)
         \o <<"</style>">>

PlainDoc(shape, ps) ==
  <<"<svg", ">">> \o PlainBlock(shape)
    \o <<"<g", " ", "style=", "\"">> \o Concat(ps) \o <<"\"", ">", "</svg>">>

InitPlain ==
  \E shape \in BlockShapes : \E ps \in SeqsUpTo(PlainPieces, MaxPlainPieces) :
    Call(PlainDoc(shape, ps), EmptyTable)

SpecPlain == InitPlain /\ [][Next]_vars

(***************************************************************************)
(* Documents for the selectors: one <style> block of up to MaxSelRules     *)
(* rules, each with one of the selectors below and one declaration, of     *)
(* --bg or of fill.                                                        *)
(***************************************************************************)
SelectorTexts ==
  { <<":", "root">>, <<":", ":", "root">>, <<"root">>, <<":", "ROOT">>,
    <<"html">>, <<"BODY">>, <<"Svg">>, <<"*">>, <<".dark">> }

SelRuleShapes == [sel : SelectorTexts, custom : BOOLEAN]

\* The rule of shape r at place n of the block; the value it declares for
\* --bg tells the place.
SelRuleToks(r, n) ==
  <<"\n", " ">> \o r.sel \o <<" ", "{", " ">>
    \o (IF r.custom
        THEN <<"--bg", ":", " ",
               (CASE n = 1 -> "#111111" [] n = 2 -> "#222222"
                  [] n = 3 -> "#333333" [] OTHER -> "#444444"), ";">>
        ELSE <<"fill", ":", " ", "red", ";">>)
    \o <<" ", "}">>

RECURSIVE SelRulesToks(_, _)
SelRulesToks(rs, n) ==
  IF n > Len(rs) THEN <<>>
  ELSE SelRuleToks(rs[n], n) \o SelRulesToks(rs, n + 1)

SelectorDoc(rs) ==
  <<"<svg", ">", "<style", ">">> \o SelRulesToks(rs, 1)
    \o <<"\n", "</style>">> \o UseRect \o <<"</svg>">>

InitSelector ==
  \E rs \in SeqsUpTo(SelRuleShapes, MaxSelRules) :
    Call(SelectorDoc(rs), EmptyTable)

SpecSelector == InitSelector /\ [][Next]_vars

(***************************************************************************)
(* Documents and overrides for the internal slots: the overrides fg, bg    *)
(* and muted are absent or present, one internal slot may be named by an   *)
(* override key and one by a declaration of the document.                  *)
(***************************************************************************)
InternalKeys == {"none", "--_text", "_text", "--_text-faint", "--_arrow"}

InternalDecls == {"none", "global --_text", "inline --_key-badge",
                  "global --_text-sec"}

InternalOverrides(f, b, m, key) ==
  LET keys == (IF f = "absent" THEN {} ELSE {"fg"})
                \cup (IF b = "absent" THEN {} ELSE {"bg"})
                \cup (IF m = "absent" THEN {} ELSE {"muted"})
                \cup (IF key = "none" THEN {} ELSE {key})
  IN  [k \in keys |->
        CASE k = "fg" -> f [] k = "bg" -> b [] k = "muted" -> m
          [] OTHER -> "#123456"]

\* A <text> that uses the internal slots --_text and --_text-faint.
UseText ==
  <<"<text", " ", "fill=", "\"", "var", "(", "--_text", ")", "\"", " ",
    "stroke=", "\"", "var", "(", "--_text-faint", ")", "\"", "/", ">">>

InternalDoc(d) ==
  (CASE d = "none" -> <<"<svg", ">">>
     [] d = "inline --_key-badge" ->
          <<"<svg", " ", "style=", "\"", "--_key-badge", ":", " ", "#654321",
            "\"", ">">>
     [] d = "global --_text" ->
          <<"<svg", ">", "<style", ">", ":", "root", " ", "{", " ",
            "--_text", ":", " ", "#654321", ";", " ", "}", "</style>">>
     [] d = "global --_text-sec" ->
          <<"<svg", ">", "<style", ">", "svg", " ", "{", " ",
            "--_text-sec", ":", " ", "#654321", ";", " ", "}", "</style>">>)
    \o UseText \o <<"</svg>">>

InitInternal ==
  \E f \in {"absent", "#DDEEFF", "red"}, b \in {"absent", "#112233"},
     m \in {"absent", "#778899"}, key \in InternalKeys, d \in InternalDecls :
    Call(InternalDoc(d), InternalOverrides(f, b, m, key))

SpecInternal == InitInternal /\ [][Next]_vars

(***************************************************************************)
(* batch.mjs: parseArgs (the --workers option) and the chunk loop of main. *)
(* The files of the input directory are numbered 0 .. n-1.  JavaScript     *)
(* numbers are records [nan, n], as parseInt returns them.                 *)
(***************************************************************************)
JsInt(n) == [nan |-> FALSE, n |-> n]

\* a + b
JsAdd(a, b) == IF a.nan \/ b.nan THEN NaN ELSE JsInt(a.n + b.n)

\* a < n, false when a is NaN
JsLess(a, n) == ~a.nan /\ a.n < n

\* The index Array.prototype.slice makes of an argument: NaN is 0, a
\* negative number counts from the end, and the result is clamped to
\* 0 .. len.
SliceIndex(a, len) ==
  IF a.nan THEN 0
  ELSE IF a.n < 0 THEN (IF len + a.n < 0 THEN 0 ELSE len + a.n)
  ELSE IF a.n > len THEN len ELSE a.n

\* files.slice(start, end + 1): a chunk with one file too many.
sliceInclusive(len, start, end) ==
  LET from == SliceIndex(start, len)
      to == SliceIndex(JsAdd(end, JsInt(1)), len)
  IN  [j \in 1..(IF to > from THEN to - from ELSE 0) |-> from + j - 1]

\* files.slice(start, end), as the sequence of the numbers of its files.
slice(len, start, end) ==
  LET from == SliceIndex(start, len)
      to == SliceIndex(end, len)
  IN  [j \in 1..(IF to > from THEN to - from ELSE 0) |-> from + j - 1]

\* opts.workers after parseArgs: 4, or parseInt of the argument that follows
\* --workers (parseInt(undefined) is NaN when nothing follows).
OptsWorkers(argv) ==
  IF argv = <<>> THEN JsInt(4)
  ELSE IF Len(argv) = 1 THEN NaN
  ELSE parseInt(argv[2])

\* Promise.race in place of Promise.allSettled: one settled promise is
\* enough.
AnySettled(batch, state) ==
  batch = <<>> \/ \E k \in 1..Len(batch) : state[batch[k]] # "pending"

\* Promise.allSettled(batch.map(...)) has resolved: every promise of the
\* batch is fulfilled or rejected.
AllSettled(batch, state) ==
  \A k \in 1..Len(batch) : state[batch[k]] # "pending"

\* i += opts.workers.  An index below -MaxIndex is recorded as -MaxIndex:
\* for every negative i the test i < files.length holds and, the step being
\* negative, files.slice(i, i + opts.workers) is empty.
Advance(i, workers) ==
  LET next == JsAdd(i, workers)
  IN  IF ~next.nan /\ next.n < -MaxIndex THEN JsInt(-MaxIndex) ELSE next

\* for (let i = 0; i < files.length; ...) { const batch = files.slice(...)
LoopTest ==
  /\ pc = "for"
  /\ IF JsLess(env.i, args.files)
     THEN /\ env' = [env EXCEPT
                       !.batch = slice(args.files, env.i,
                                       JsAdd(env.i, args.workers)),
                       !.k = 1]
          /\ pc' = "map"
     ELSE /\ pc' = "report"
          /\ UNCHANGED env
  /\ UNCHANGED <<args, result>>
  /\ UNCHANGED flattenVars

\* batch.map(file => renderFile(...)): the call of renderFile for the next
\* file of the batch runs up to its first await (the promise is pending), or
\* to its end (ascii output: fulfilled), or throws (rejected).
MapRenderFile ==
  /\ pc = "map"
  /\ IF env.k <= Len(env.batch)
     THEN /\ \E outcome \in {"pending", "fulfilled", "rejected"} :
               env' = [env EXCEPT !.state[env.batch[env.k]] = outcome,
                                  !.calls[env.batch[env.k]] = @ + 1,
                                  !.k = @ + 1]
          /\ UNCHANGED pc
     ELSE /\ pc' = "await"
          /\ UNCHANGED env
  /\ UNCHANGED <<args, result>>
  /\ UNCHANGED flattenVars

\* A pending renderFile resumes after await renderMermaid(...) and runs to
\* its end: it returns, or throws.
SettleRender ==
  /\ pc = "await"
  /\ \E f \in DOMAIN env.state :
       /\ env.state[f] = "pending"
       /\ \E outcome \in {"fulfilled", "rejected"} :
            env' = [env EXCEPT !.state[f] = outcome]
  /\ UNCHANGED <<pc, args, result>>
  /\ UNCHANGED flattenVars

RECURSIVE Tally(_, _, _, _)
\* results.forEach(...): success++ for a fulfilled result, failed.push(...)
\* for a rejected one.
Tally(batch, state, k, acc) ==
  IF k > Len(batch) THEN acc
  ELSE Tally(batch, state, k + 1,
             IF state[batch[k]] = "fulfilled"
             THEN [acc EXCEPT !.success = @ + 1]
             ELSE [acc EXCEPT !.failed = Append(@, batch[k])])

\* await Promise.allSettled(...) resumes; results.forEach(...); i +=
\* opts.workers
ForEachResult ==
  /\ pc = "await"
  /\ AllSettled(env.batch, env.state)
  /\ LET acc == Tally(env.batch, env.state, 1,
                      [success |-> env.success, failed |-> env.failed])
     IN  env' = [env EXCEPT !.success = acc.success,
                            !.failed = acc.failed,
                            !.i = Advance(env.i, args.workers)]
  /\ pc' = "for"
  /\ UNCHANGED <<args, result>>
  /\ UNCHANGED flattenVars

\* if (failed.length > 0) { ...; process.exit(1) }, else main returns and
\* the process exits with status 0.
Report ==
  /\ pc = "report"
  /\ result' = IF Len(env.failed) > 0 THEN 1 ELSE 0
  /\ pc' = "exited"
  /\ UNCHANGED <<args, env>>
  /\ UNCHANGED flattenVars

\* The arguments of the command line that set the worker count.
WorkerArgs ==
  {<<>>, <<"--workers">>}
    \cup {<<"--workers", t>> : t \in {"1", "2", "3", "0", "-1", "-2", "x"}}

\* main at the chunk loop: n files were found, success = 0, failed = [].
InitBatch ==
  \E n \in 1..MaxFiles, argv \in WorkerArgs :
    /\ pc = "for"
    /\ args = [files |-> n, workers |-> OptsWorkers(argv)]
    /\ env = [i |-> JsInt(0), batch |-> <<>>, k |-> 1,
              state |-> [f \in 0..(n - 1) |-> "idle"],
              calls |-> [f \in 0..(n - 1) |-> 0],
              success |-> 0, failed |-> <<>>]
    /\ result = <<>>
    /\ svg = <<>>
    /\ colors = EmptyTable
    /\ cssVars = [inline |-> EmptyTable, scoped |-> <<>>,
                  global |-> EmptyTable]
    /\ computed = EmptyTable
    /\ flatSvg = <<>>

NextBatch ==
  \/ LoopTest
  \/ MapRenderFile
  \/ SettleRender
  \/ ForEachResult
  \/ Report

SpecBatch == InitBatch /\ [][NextBatch]_vars

\* Every pending render settles and main is resumed after each await.
SpecBatchFair == SpecBatch /\ WF_vars(NextBatch)

(***************************************************************************)
(* Notions the claims are stated with.                                     *)
(***************************************************************************)
Resolved == pc \in {"resolved", "substituted", "attrs", "done"}

Substituted == pc \in {"substituted", "attrs", "done"}

\* The entry k of a source is available: present and not empty.
Available(table, k) == k \in DOMAIN table /\ table[k] # ""

\* The built-in default of the public name X, given the resolved fg and bg.
BuiltInDefault(X, palette) ==
  CASE X = "bg" -> "#FFFFFF"
    [] X = "fg" -> "#27272A"
    [] X = "line" -> mixColors(palette["--fg"], palette["--bg"], 30)
    [] X = "accent" -> mixColors(palette["--fg"], palette["--bg"], 50)
    [] X = "muted" -> mixColors(palette["--fg"], palette["--bg"], 40)
    [] X = "surface" -> mixColors(palette["--fg"], palette["--bg"], 3)
    [] X = "border" -> mixColors(palette["--fg"], palette["--bg"], 20)

\* The first available value in the order bare override, dashed override,
\* style attribute, style block, default.
FirstAvailable(X, overrides, cv, palette) ==
  IF Available(overrides, X) THEN overrides[X]
  ELSE IF Available(overrides, Dashed(X)) THEN overrides[Dashed(X)]
  ELSE IF Available(cv.inline, Dashed(X)) THEN cv.inline[Dashed(X)]
  ELSE IF Available(cv.global, Dashed(X)) THEN cv.global[Dashed(X)]
  ELSE BuiltInDefault(X, palette)

RECURSIVE CloseOf(_, _, _)
\* The position of the ")" that brings the nesting depth to 0, scanning
\* from position j at depth `depth`; 0 when the parenthesis is never closed.
CloseOf(s, j, depth) ==
  IF j > Len(s) THEN 0
  ELSE IF s[j] = "(" THEN CloseOf(s, j + 1, depth + 1)
  ELSE IF s[j] = ")" THEN (IF depth = 1 THEN j ELSE CloseOf(s, j + 1, depth - 1))
  ELSE CloseOf(s, j + 1, depth)

\* "var(" followed by a name of set N starts at position i.
VarStart(s, i, N) ==
  i + 2 <= Len(s) /\ s[i] = "var" /\ s[i + 1] = "(" /\ s[i + 2] \in N

\* The ")" that balances the "(" of the var( at position i, or 0.
BalancedEnd(s, i) == CloseOf(s, i + 2, 1)

\* A reference var(N) or var(N, fallback), N in set N, starts at i.
IsRef(s, i, N) ==
  /\ VarStart(s, i, N)
  /\ LET k == SkipSpace(s, i + 3)
     IN  k <= Len(s) /\ s[k] \in {")", ","}
  /\ BalancedEnd(s, i) # 0

HasFallback(s, i) ==
  LET k == SkipSpace(s, i + 3) IN k <= Len(s) /\ s[k] = ","

\* The custom property names of the documents that are no palette slots.
UnknownNames == {"--m", "--btn", "--other"}

SlotStarts(s) == {i \in 1..Len(s) : VarStart(s, i, SlotNames)}

RECURSIVE Occurrences(_, _, _)
\* The number of positions >= i of s where the token sequence u occurs.
Occurrences(u, s, i) ==
  IF i + Len(u) - 1 > Len(s) THEN 0
  ELSE (IF SubSeq(s, i, i + Len(u) - 1) = u THEN 1 ELSE 0)
         + Occurrences(u, s, i + 1)

RECURSIVE Outside(_, _, _)
\* The tokens of s, from position i on, outside every balanced reference
\* to a palette slot, palette values left out.
Outside(s, i, values) ==
  IF i > Len(s) THEN <<>>
  ELSE IF IsRef(s, i, SlotNames) THEN Outside(s, BalancedEnd(s, i) + 1, values)
  ELSE IF s[i] \in values THEN Outside(s, i + 1, values)
  ELSE <<s[i]>> \o Outside(s, i + 1, values)

PaletteValues == {computed[n] : n \in DOMAIN computed}

\* The positions the substitution pass consumes, scanning from position i.
RECURSIVE Consumed(_, _)
Consumed(s, i) ==
  IF i > Len(s) THEN {}
  ELSE LET e == VarMatchEnd(s, i)
       IN  IF e # 0 THEN (i..e) \cup Consumed(s, e + 1)
           ELSE Consumed(s, i + 1)

\* The nesting depth of parentheses reached inside s.
RECURSIVE MaxDepth(_, _, _)
MaxDepth(s, i, depth) ==
  IF i > Len(s) THEN depth
  ELSE IF s[i] = "(" THEN
         LET d == MaxDepth(s, i + 1, depth + 1)
         IN  IF d > depth + 1 THEN d ELSE depth + 1
  ELSE IF s[i] = ")" THEN MaxDepth(s, i + 1, depth - 1)
  ELSE MaxDepth(s, i + 1, depth)

\* Every parenthesis of s is matched.
RECURSIVE BalancedFrom(_, _, _)
BalancedFrom(s, i, depth) ==
  IF i > Len(s) THEN depth = 0
  ELSE IF s[i] = "(" THEN BalancedFrom(s, i + 1, depth + 1)
  ELSE IF s[i] = ")" THEN depth > 0 /\ BalancedFrom(s, i + 1, depth - 1)
  ELSE BalancedFrom(s, i + 1, depth)

Balanced(s) == BalancedFrom(s, 1, 0)

(***************************************************************************)
(* C1.  Resolution order.                                                  *)
(***************************************************************************)
\* C1: every public name X resolves to the first available (present and
\* not empty) value among overrides[X], overrides['--X'], the style
\* attribute's --X, the style block's global --X and the built-in default.
C1_ResolutionOrder ==
  Resolved =>
    \A X \in PublicNames :
      computed[Dashed(X)] = FirstAvailable(X, colors, cssVars, computed)

(***************************************************************************)
(* C2 - C5.  The substitution pass.                                        *)
(***************************************************************************)
\* C2: the output of flattenSvg holds no reference var(N) or
\* var(N, fallback) to a palette slot N, wherever it sat in the document
\* (stated for the documents whose parentheses are balanced).
C2_NoSlotReferenceLeft ==
  (pc = "done" /\ Balanced(svg)) => \A i \in 1..Len(flatSvg) : ~IsRef(flatSvg, i, SlotNames)

\* C3: in a document with balanced parentheses whose only reference to a
\* slot is var(N, F), F holding one level of balanced parentheses, exactly
\* the characters from "var(" to the balancing ")" are replaced by the value
\* of N.
C3_NestedFallbackConsumedExactly ==
  \A i \in SlotStarts(svg) :
    (/\ pc = "substituted"
     /\ Balanced(svg)
     /\ SlotStarts(svg) = {i}
     /\ IsRef(svg, i, SlotNames) /\ HasFallback(svg, i)
     /\ MaxDepth(SubSeq(svg, i + 2, BalancedEnd(svg, i) - 1), 1, 0) = 1)
    => flatSvg = SubSeq(svg, 1, i - 1) \o <<computed[svg[i + 2]]>>
                   \o SubSeq(svg, BalancedEnd(svg, i) + 1, Len(svg))

\* C4: in a document with balanced parentheses the substitution pass leaves
\* every token outside the references to slots unchanged and in order.
C4_OutsideUnchanged ==
  (/\ pc = "substituted"
   /\ Balanced(svg)
   /\ \A i \in SlotStarts(svg) : IsRef(svg, i, SlotNames))
  => Outside(flatSvg, 1, PaletteValues) = Outside(svg, 1, PaletteValues)

\* A reference to an unknown property at position i of s that holds no
\* reference to a slot and does not lie inside an unclosed or enclosing
\* var( that names a slot.
ProtectedRef(s, i) ==
  /\ IsRef(s, i, UnknownNames)
  /\ \A j \in SlotStarts(s) :
       /\ ~(i < j /\ j < BalancedEnd(s, i))
       /\ ~(j < i /\ (BalancedEnd(s, j) = 0 \/ BalancedEnd(s, j) > i))

RefText(s, i) == SubSeq(s, i, BalancedEnd(s, i))

\* C5: a reference var(M) or var(M, fallback) to a property M that is no
\* palette slot is left in the output as written: the substitution pass
\* consumes none of its characters, and the output holds its text at least
\* as often as the document holds it as such a reference.
C5_UnknownRefsUntouched ==
  Substituted =>
    \A i \in 1..Len(svg) :
      ProtectedRef(svg, i) =>
        /\ (i..BalancedEnd(svg, i)) \cap Consumed(svg, 1) = {}
        /\ Occurrences(RefText(svg, i), flatSvg, 1)
             >= Cardinality({j \in 1..Len(svg) :
                   ProtectedRef(svg, j) /\ RefText(svg, j) = RefText(svg, i)})

\* C5 witness: a document with a slot reference that is replaced before
\* and one after an unknown reference with a fallback, flattened.
C5_Witness ==
  /\ pc = "done"
  /\ \E i \in 1..Len(svg) :
       /\ ProtectedRef(svg, i) /\ HasFallback(svg, i)
       /\ \E j \in SlotStarts(svg) : j < i /\ VarMatchEnd(svg, j) # 0
       /\ \E j \in SlotStarts(svg) : j > i /\ VarMatchEnd(svg, j) # 0
       /\ Occurrences(RefText(svg, i), flatSvg, 1) >= 1


(***************************************************************************)
(* C6.  The attribute cleanup.                                             *)
(***************************************************************************)
\* A style attribute style="..." or style='...' at position i: the position
\* of the next occurrence of its opening quote, or 0.
QuotedAttrEnd(s, i) ==
  IF i + 1 <= Len(s) /\ s[i] = "style=" /\ s[i + 1] \in Quotes
  THEN FirstIn(s, i + 2, {s[i + 1]})
  ELSE 0

RECURSIVE EveryAttrCleaned(_, _)
\* s with every style attribute replaced by its cleaned form: the
\* declarations of palette slots removed, the others joined by "; ", the
\* attribute deleted when none is left.
EveryAttrCleaned(s, i) ==
  IF i > Len(s) THEN <<>>
  ELSE LET p == QuotedAttrEnd(s, i)
       IN  IF p # 0
           THEN CleanStyleAttr(s[i + 1], SubSeq(s, i + 2, p - 1))
                  \o EveryAttrCleaned(s, p + 1)
           ELSE <<s[i]>> \o EveryAttrCleaned(s, i + 1)

\* C6: after the attribute cleanup every attribute style="..." or
\* style='...' has lost exactly its declarations of palette slots, the
\* remaining declarations are joined by "; ", and an attribute with no
\* declaration left is deleted.
C6_EveryStyleAttrCleaned ==
  pc = "attrs" => flatSvg = EveryAttrCleaned(ReplaceVars(svg, 1, computed), 1)

(***************************************************************************)
(* C7 - C10.  The style block cleanup.                                     *)
(***************************************************************************)
\* Position k of s lies inside the content of a style block.
InStyleBlock(s, k) ==
  \E i \in 1..Len(s) :
    StyleBlockEnd(s, i) # 0 /\ StyleTagEnd(s, i) < k /\ k < StyleBlockEnd(s, i)

\* A declaration of a custom property starts at position k: a name that
\* begins with "--", is no part of a longer name, and is followed by ":".
CustomDeclAt(s, k) ==
  /\ k <= Len(s) /\ IsWord(s[k]) /\ StartsDashed(s[k])
  /\ (k = 1 \/ ~IsWord(s[k - 1]))
  /\ LET c == SkipSpace(s, WordRunEnd(s, k) + 1)
     IN  c <= Len(s) /\ s[c] = ":"

DeclName(s, k) == Flat(SubSeq(s, k, WordRunEnd(s, k)))

\* The declaration that starts at k, up to its value's end (the next ";"
\* or "}"), trailing white space left out.
DeclText(s, k) ==
  LET e == FirstIn(s, k, {";", "}"})
  IN  SubSeq(s, k, SkipSpaceBack(s, IF e = 0 THEN Len(s) ELSE e - 1))

SlotDeclAt(s, k) == CustomDeclAt(s, k) /\ DeclName(s, k) \in SlotNames

\* The declaration that starts at k ends with a semicolon.
Terminated(s, k) ==
  LET e == FirstIn(s, k, {";", "}"}) IN e # 0 /\ s[e] = ";"

\* C7: inside style blocks a declaration of a custom property is removed
\* exactly when its name is a palette slot: every other custom property's
\* declaration is still in the output, and no declaration of a slot is
\* (stated for the documents whose slot declarations all end with ";").
C7_OnlySlotDeclsRemoved ==
  (/\ pc = "done"
   /\ \A k \in 1..Len(svg) : SlotDeclAt(svg, k) => Terminated(svg, k))
  =>
    /\ \A k \in 1..Len(svg) :
         (InStyleBlock(svg, k) /\ CustomDeclAt(svg, k) /\ ~SlotDeclAt(svg, k))
           => Occurrences(DeclText(svg, k), flatSvg, 1) >= 1
    /\ \A k \in 1..Len(flatSvg) :
         ~(InStyleBlock(flatSvg, k) /\ SlotDeclAt(flatSvg, k))

RECURSIVE CloseBrace(_, _, _)
\* The position of the "}" that brings the nesting depth to 0, scanning
\* from position j at depth `depth`; 0 when the brace is never closed.
CloseBrace(s, j, depth) ==
  IF j > Len(s) THEN 0
  ELSE IF s[j] = "{" THEN CloseBrace(s, j + 1, depth + 1)
  ELSE IF s[j] = "}" THEN (IF depth = 1 THEN j ELSE CloseBrace(s, j + 1, depth - 1))
  ELSE CloseBrace(s, j + 1, depth)

RECURSIVE PrevDelim(_, _)
\* The last position <= j of s that ends a rule, a declaration or the style
\* tag, or 0.
PrevDelim(s, j) ==
  IF j < 1 THEN 0
  ELSE IF s[j] \in {"{", "}", ";", ">"} THEN j
  ELSE PrevDelim(s, j - 1)

\* A rule (ordinary, or an at-rule with inner rules) has its "{" at b.
RuleAt(s, b) ==
  b <= Len(s) /\ s[b] = "{" /\ InStyleBlock(s, b) /\ CloseBrace(s, b + 1, 1) # 0

RuleStart(s, b) == SkipSpace(s, PrevDelim(s, b - 1) + 1)

RuleEnd(s, b) == CloseBrace(s, b + 1, 1)

RuleText(s, b) == SubSeq(s, RuleStart(s, b), RuleEnd(s, b))

DeclaresSlot(s, b) == \E k \in b..RuleEnd(s, b) : SlotDeclAt(s, k)

\* Neither the rule at b nor a rule inside it has an empty body.
NonEmptyBody(s, b) ==
  \A k \in b..RuleEnd(s, b) : s[k] = "{" => s[SkipSpace(s, k + 1)] # "}"

NoSpace(t) == SelectSeq(t, LAMBDA x : ~IsSpace(x))

\* C8: a rule of a style block that declares no palette slot (an ordinary
\* rule, or an @media block with its inner rules) is in the output as it
\* was, whatever the other rules of the block look like and whether or not
\* their slot declarations end with a semicolon (stated for the documents
\* whose only custom properties are palette slots).
C8_OtherRulesUnchanged ==
  (/\ pc = "done"
   /\ \A k \in 1..Len(svg) : CustomDeclAt(svg, k) => SlotDeclAt(svg, k))
  =>
    \A b \in 1..Len(svg) :
      (RuleAt(svg, b) /\ ~DeclaresSlot(svg, b) /\ NonEmptyBody(svg, b))
        => Occurrences(NoSpace(RuleText(svg, b)), NoSpace(flatSvg), 1) >= 1

\* C9: the output holds no rule with an empty body, at any nesting depth,
\* and no style block made of braces and white space only.
C9_NoEmptyRuleLeft ==
  pc = "done" =>
    /\ \A b \in 1..Len(flatSvg) :
         (flatSvg[b] = "{" /\ InStyleBlock(flatSvg, b))
           => LET c == SkipSpace(flatSvg, b + 1)
              IN  ~(c <= Len(flatSvg) /\ flatSvg[c] = "}")
    /\ \A i \in 1..Len(flatSvg) :
         StyleBlockEnd(flatSvg, i) # 0
           => hasContent(SubSeq(flatSvg, StyleTagEnd(flatSvg, i) + 1,
                                StyleBlockEnd(flatSvg, i) - 1))

\* The top-level rule with its "{" at b is scoped: its selector is none of
\* the global ones and its body declares a custom property.
ScopedRule(s, b) ==
  /\ ~isGlobal(Flat(TrimToks(SubSeq(s, RuleStart(s, b), b - 1))))
  /\ \E k \in b..RuleEnd(s, b) : CustomDeclAt(s, k)

RECURSIVE DropScoped(_, _)
\* The content c of a style block, from position i on, without its scoped
\* top-level rules.
DropScoped(c, i) ==
  IF i > Len(c) THEN <<>>
  ELSE LET b == FirstIn(c, i, {"{"})
           e == IF b = 0 THEN 0 ELSE CloseBrace(c, b + 1, 1)
       IN  IF e = 0 THEN SubSeq(c, i, Len(c))
           ELSE (IF /\ ~isGlobal(Flat(TrimToks(SubSeq(c, i, b - 1))))
                    /\ \E k \in b..e : CustomDeclAt(c, k)
                 THEN <<>> ELSE SubSeq(c, i, e))
                  \o DropScoped(c, e + 1)

RECURSIVE WithoutScoped(_, _)
\* The document s, from position i on, without the scoped rules of its
\* style blocks.
WithoutScoped(s, i) ==
  IF i > Len(s) THEN <<>>
  ELSE LET e == StyleBlockEnd(s, i)
           t == StyleTagEnd(s, i)
       IN  IF e # 0
           THEN SubSeq(s, i, t) \o DropScoped(SubSeq(s, t + 1, e - 1), 1)
                  \o <<s[e]>> \o WithoutScoped(s, e + 1)
           ELSE <<s[i]>> \o WithoutScoped(s, i + 1)

\* The "{" of the top-level rules of the style blocks of s.
TopLevelRules(s) ==
  {b \in 1..Len(s) :
     /\ RuleAt(s, b)
     /\ \A a \in 1..(b - 1) : ~(RuleAt(s, a) /\ RuleEnd(s, a) > b)}

\* C10: the palette of a document is the palette of the document without
\* its scoped rules, and a scoped rule that declared a slot is not in the
\* output as an empty rule.
C10_ScopedRulesIgnored ==
  /\ Resolved => computed = Palette(extractCssVars(WithoutScoped(svg, 1)), colors)
  /\ pc = "done" =>
       \A b \in TopLevelRules(svg) :
         (ScopedRule(svg, b) /\ DeclaresSlot(svg, b))
           => Occurrences(NoSpace(SubSeq(svg, RuleStart(svg, b), b)) \o <<"}">>,
                          NoSpace(flatSvg), 1) = 0

(***************************************************************************)
(* C11, C12.  The palette.                                                 *)
(***************************************************************************)
\* "#" followed by six hexadecimal digits.
IsHex6(v) ==
  /\ Len(v) = 7 /\ SubSeq(v, 1, 1) = "#"
  /\ \A k \in 2..7 : IsHexChar(SubSeq(v, k, k))

\* C11: every slot of the palette computed by flattenSvg is "#" followed by
\* six hexadecimal digits, whatever the document and the overrides supply.
C11_SlotsAreHex6 ==
  Resolved => \A n \in SlotNames : IsHex6(computed[n])

\* Neither the overrides nor the document supply X.
NotSupplied(X) ==
  /\ X \notin DOMAIN colors /\ Dashed(X) \notin DOMAIN colors
  /\ Dashed(X) \notin DOMAIN cssVars.inline
  /\ Dashed(X) \notin DOMAIN cssVars.global

DerivedRatio ==
  [X \in {"line", "accent", "muted", "surface", "border"} |->
     CASE X = "line" -> 30 [] X = "accent" -> 50 [] X = "muted" -> 40
       [] X = "surface" -> 3 [] X = "border" -> 20]

\* C12: bg and fg that nothing supplies are #FFFFFF and #27272A; each of
\* line, accent, muted, surface, border that nothing supplies is
\* mixColors(fg, bg, r), r = 0.3, 0.5, 0.4, 0.03, 0.2, of the resolved fg
\* and bg.
C12_DefaultsAndDerived ==
  Resolved =>
    /\ NotSupplied("bg") => computed["--bg"] = "#FFFFFF"
    /\ NotSupplied("fg") => computed["--fg"] = "#27272A"
    /\ \A X \in DOMAIN DerivedRatio :
         NotSupplied(X) =>
           computed[Dashed(X)]
             = mixColors(computed["--fg"], computed["--bg"], DerivedRatio[X])

\* C12 witness: fg and bg both come from the overrides as 6-digit colours,
\* line is not supplied and is their mix, which is not the mix of the
\* built-in fg and bg.
C12_Witness ==
  /\ pc = "resolved"
  /\ "bg" \in DOMAIN colors /\ IsHex6(colors["bg"])
  /\ "fg" \in DOMAIN colors /\ IsHex6(colors["fg"])
  /\ NotSupplied("line")
  /\ computed["--line"] = mixColors(colors["fg"], colors["bg"], 30)
  /\ computed["--line"] # mixColors("#27272A", "#FFFFFF", 30)

(***************************************************************************)
(* C13 - C16.  mixColors, hexToRgb, rgbToHex.                              *)
(***************************************************************************)
\* The text of a colour after its optional "#".
HexDigitsOf(c) ==
  IF Len(c) >= 1 /\ SubSeq(c, 1, 1) = "#" THEN SubSeq(c, 2, Len(c)) ELSE c

AllHex(d) == \A k \in 1..Len(d) : IsHexChar(SubSeq(d, k, k))

\* An optional "#" followed by 3 or 6 hexadecimal digits.
IsHexColour(c) == Len(HexDigitsOf(c)) \in {3, 6} /\ AllHex(HexDigitsOf(c))

\* An optional "#" followed by 6 hexadecimal digits.
IsHexColour6(c) == Len(HexDigitsOf(c)) = 6 /\ AllHex(HexDigitsOf(c))

\* The six digits of a hex colour, those of the 3-digit form doubled.
SixDigits(c) ==
  LET d == HexDigitsOf(c)
      at(k) == SubSeq(d, k, k)
  IN  IF Len(d) = 3 THEN at(1) \o at(1) \o at(2) \o at(2) \o at(3) \o at(3)
      ELSE d

\* The channels a hex colour stands for.
ChannelsOf(c) ==
  LET d == SixDigits(c)
      byte(k) == 16 * HexVal(SubSeq(d, 2 * k - 1, 2 * k - 1))
                   + HexVal(SubSeq(d, 2 * k, 2 * k))
  IN  <<byte(1), byte(2), byte(3)>>

\* n is round(b + (f - b) * pct / 100), halves rounded up.
IsRounded(n, f, b, pct) ==
  /\ 200 * n - 100 <= 200 * b + 2 * (f - b) * pct
  /\ 200 * b + 2 * (f - b) * pct < 200 * n + 100

\* C13: for valid hex inputs and a ratio in [0, 1], each channel of
\* mixColors(fg, bg, ratio) is round(bg + (fg - bg) * ratio) and lies in
\* [0, 255]; ratio 0 gives the channels of bg and ratio 1 those of fg.
C13_MixIsRoundedInterpolation ==
  (/\ pc = "mixed"
   /\ IsHexColour(args[1]) /\ IsHexColour(args[2]) /\ args[3] \in 0..100)
  => /\ IsHex6(result)
     /\ LET f == ChannelsOf(args[1])
            b == ChannelsOf(args[2])
            out == ChannelsOf(result)
        IN  /\ \A k \in 1..3 : IsRounded(out[k], f[k], b[k], args[3])
            /\ \A k \in 1..3 : out[k] \in 0..255
            /\ args[3] = 0 => out = b
            /\ args[3] = 100 => out = f

\* C13 witness: a mix at ratio 0.3 one channel of which is rounded up.
C13_Witness ==
  /\ pc = "mixed"
  /\ IsHexColour(args[1]) /\ IsHexColour(args[2]) /\ args[3] = 30
  /\ IsHex6(result)
  /\ \E k \in 1..3 :
       ChannelsOf(result)[k]
         = TruncChannel(ChannelsOf(args[1])[k], ChannelsOf(args[2])[k], 30) + 1

\* C14 as stated: for every valid hex colour c (3 or 6 digits, any case,
\* with or without "#") and every ratio r, mixColors(c, c, r) is c.
C14_SelfMixIsIdentity ==
  (pc = "mixed" /\ args[1] = args[2] /\ IsHexColour(args[1]))
    => result = args[1]

\* C14 amended: mixColors(c, c, r) is the colour c in its canonical form,
\* "#" followed by the six digits of c in lower case; it is c itself when c
\* is written in that form.
C14_SelfMixIsCanonical ==
  (pc = "mixed" /\ args[1] = args[2] /\ IsHexColour(args[1]))
    => /\ result = "#" \o ToLower(SixDigits(args[1]))
       /\ ChannelsOf(result) = ChannelsOf(args[1])
       /\ (IsHex6(args[1]) /\ ToLower(args[1]) = args[1]) => result = args[1]

\* C14 witness: #FFF mixed with itself at ratio 1.5 gives #ffffff.
C14_Witness ==
  /\ pc = "mixed"
  /\ args = <<"#FFF", "#FFF", 150>>
  /\ result = "#ffffff"

\* C15: for a valid 6-digit hex colour c, hexToRgb followed by rgbToHex
\* gives "#" and the six digits of c in lower case.
C15_RoundTripIsLowercase ==
  (/\ pc = "formatted"
   /\ args[1].type = "string" /\ IsHexColour6(args[1].value))
  => /\ result = "#" \o ToLower(HexDigitsOf(args[1].value))
     /\ Len(result) = 7

\* C15 witness: 0aF00a, with channels below 16, round-trips to #0af00a.
C15_Witness ==
  /\ pc = "formatted"
  /\ args = <<Str("0aF00a")>>
  /\ result = "#0af00a"

\* C16 as stated: hexToRgb returns a triple exactly for the strings made of
\* an optional "#" and 3 or 6 hexadecimal digits, and null otherwise.
C16_TripleIffHexText ==
  pc = "parsed" =>
    IF args[1].type = "string" /\ IsHexColour(args[1].value)
    THEN result = ChannelsOf(args[1].value)
    ELSE result = Null

\* C16 amended: hexToRgb returns a triple exactly for the strings that,
\* once white space around them is trimmed, are made of an optional "#" and
\* 3 or 6 hexadecimal digits (each digit of the 3-digit form doubled), and
\* null for every other string and for every value that is no string.
C16_TripleIffTrimmedHexText ==
  pc = "parsed" =>
    IF args[1].type = "string" /\ IsHexColour(TrimStr(args[1].value))
    THEN result = ChannelsOf(TrimStr(args[1].value))
    ELSE result = Null

\* C16 witness: the padded 3-digit colour " #a0F\n" parses to (170, 0, 255).
C16_Witness ==
  /\ pc = "parsed"
  /\ args = <<Str(" #a0F\n")>>
  /\ result = <<170, 0, 255>>

(***************************************************************************)
(* C17.  validateWidth.                                                    *)
(***************************************************************************)
\* The number of leading digits of str.
LeadingDigits(str) ==
  CHOOSE k \in 0..Len(str) :
    /\ \A j \in 1..k : IsDigit(SubSeq(str, j, j))
    /\ k < Len(str) => ~IsDigit(SubSeq(str, k + 1, k + 1))

RECURSIVE Decimal(_)
\* The number a string of digits stands for.
Decimal(d) ==
  IF Len(d) = 0 THEN 0
  ELSE 10 * Decimal(SubSeq(d, 1, Len(d) - 1)) + DigitVal(SubSeq(d, Len(d), Len(d)))

\* The text after the leading white space and the sign of str.
Unsigned(str) ==
  LET t == SubSeq(str, SkipBlanks(str, 1), Len(str))
  IN  IF Len(t) >= 1 /\ SubSeq(t, 1, 1) \in {"-", "+"}
      THEN SubSeq(t, 2, Len(t)) ELSE t

Negative(str) ==
  LET i == SkipBlanks(str, 1) IN i <= Len(str) /\ SubSeq(str, i, i) = "-"

\* str is the text of a number: white space, an optional sign, digits, an
\* optional fraction, white space.
IsNumberText(str) ==
  LET u == Unsigned(TrimStr(str))
      k == LeadingDigits(u)
      rest == SubSeq(u, k + 1, Len(u))
  IN  /\ k >= 1
      /\ \/ rest = ""
         \/ /\ Len(rest) >= 2 /\ SubSeq(rest, 1, 1) = "."
            /\ LeadingDigits(SubSeq(rest, 2, Len(rest))) = Len(rest) - 1

\* A string of zeros.
AllZero(d) == \A j \in 1..Len(d) : SubSeq(d, j, j) = "0"

\* The number str stands for lies in [100, 10000].
NumberInRange(str) ==
  LET u == Unsigned(TrimStr(str))
      k == LeadingDigits(u)
      n == Decimal(SubSeq(u, 1, k))
  IN  /\ ~Negative(str)
      /\ 100 <= n
      /\ \/ n < 10000
         \/ n = 10000 /\ AllZero(SubSeq(u, k + 2, Len(u)))

\* C17 as stated: validateWidth(w, d) is the integer value of w when w is a
\* number in [100, 10000], and d for every other input.
C17_IntegerInRangeElseDefault ==
  pc = "validated" =>
    IF IsNumberText(args[1].value) /\ NumberInRange(args[1].value)
    THEN result = Decimal(SubSeq(Unsigned(TrimStr(args[1].value)), 1,
                                 LeadingDigits(Unsigned(TrimStr(args[1].value)))))
    ELSE result = DefaultWidth(args[2])

\* C17 amended: validateWidth(w, d) is the integer that the leading decimal
\* digits of String(w) spell, after optional white space and sign and
\* whatever text follows them, when that integer lies in [100, 10000], and
\* d (800 when d is left out) otherwise; so the result is in [100, 10000]
\* or is d.
C17_LeadingIntegerInRangeElseDefault ==
  pc = "validated" =>
    LET u == Unsigned(args[1].value)
        k == LeadingDigits(u)
        n == Decimal(SubSeq(u, 1, k))
    IN  /\ IF k >= 1 /\ ~Negative(args[1].value) /\ 100 <= n /\ n <= 10000
           THEN result = n
           ELSE result = DefaultWidth(args[2])
        /\ result \in 100..10000 \/ result = DefaultWidth(args[2])

\* C17 witness: validateWidth("100x", 50) is 100.
C17_Witness ==
  /\ pc = "validated"
  /\ args = <<Str("100x"), Given(50)>>
  /\ result = 100

(***************************************************************************)
(* C18.  svgToPng.                                                         *)
(***************************************************************************)
\* C18: svgToPng returns true only when the temporary file was written,
\* the converter was spawned without error and exited with status 0; in
\* every other case it returns false, and no exception leaves it.
C18_FailsClosed ==
  pc = "returned" =>
    /\ result \in BOOLEAN
    /\ result = (/\ env.written
                 /\ env.spawn.error = "none"
                 /\ env.spawn.status = "0")
    /\ env.thrown = ""

\* C18 witness: a call that returned false because the converter exited
\* with status 1.
C18_Witness ==
  /\ pc = "returned"
  /\ env.spawn = [error |-> "none", status |-> "1"]
  /\ result = FALSE

(***************************************************************************)
(* C19.  Documents without custom properties.                              *)
(***************************************************************************)
\* s declares no custom property and holds no var() reference.
NoCustomProperty(s) ==
  \A k \in 1..Len(s) : ~StartsDashed(s[k]) /\ s[k] # "var"

\* Every style attribute of s holds at least one declaration.
NoHollowAttr(s) ==
  \A i \in 1..Len(s) :
    QuotedAttrEnd(s, i) # 0
      => \E k \in (i + 2)..(QuotedAttrEnd(s, i) - 1) : s[k] = ":"

\* The tokens of s other than white space and semicolons.
Significant(s) == SelectSeq(s, LAMBDA x : ~IsSpace(x) /\ x # ";")

\* C19: a document that declares no custom property and holds no var()
\* reference is returned unchanged by flattenSvg(doc, {}): its style
\* attributes and its <style> elements, the attributes on the <style> tag
\* included, are as written.  Stated up to white space and semicolons, for
\* the documents whose style attributes each hold a declaration.
C19_PlainDocumentUnchanged ==
  (/\ pc = "done" /\ colors = EmptyTable
   /\ NoCustomProperty(svg) /\ NoHollowAttr(svg))
    => Significant(flatSvg) = Significant(svg)

(***************************************************************************)
(* C20.  Global and scoped rules.                                          *)
(***************************************************************************)
\* The selector of the rule with its "{" at b, trimmed.
SelectorOf(s, b) == Flat(TrimToks(SubSeq(s, RuleStart(s, b), b - 1)))

\* The custom properties the rule at b declares, with their values.
DeclaredBy(s, b) ==
  LET at == {k \in b..RuleEnd(s, b) : CustomDeclAt(s, k)}
      valueOf(k) ==
        LET c == SkipSpace(s, WordRunEnd(s, k) + 1)
            e == FirstIn(s, c, {";", "}"})
        IN  TrimStr(Flat(SubSeq(s, c + 1, e - 1)))
  IN  [n \in {DeclName(s, k) : k \in at} |->
        LET last == CHOOSE k \in at :
                      /\ DeclName(s, k) = n
                      /\ \A j \in at : DeclName(s, j) = n => j <= k
        IN  valueOf(last)]

RECURSIVE RulesFrom(_, _)
\* The "{" of the rules of s that declare a custom property, in document
\* order, from position i on.
RulesFrom(s, i) ==
  IF i > Len(s) THEN <<>>
  ELSE IF RuleAt(s, i)
    THEN (IF DOMAIN DeclaredBy(s, i) # {} THEN <<i>> ELSE <<>>)
           \o RulesFrom(s, RuleEnd(s, i) + 1)
  ELSE RulesFrom(s, i + 1)

RECURSIVE GlobalOf(_, _, _)
\* The table the rules bs of s with a selector of G build, later rules
\* overwriting earlier ones.
GlobalOf(s, bs, G) ==
  IF bs = <<>> THEN EmptyTable
  ELSE LET b == bs[Len(bs)]
           before == GlobalOf(s, SubSeq(bs, 1, Len(bs) - 1), G)
       IN  IF ToLower(SelectorOf(s, b)) \in G
           THEN Merge(before, DeclaredBy(s, b)) ELSE before

RECURSIVE ScopedOf(_, _, _)
\* The entries of the rules bs of s with a selector outside G.
ScopedOf(s, bs, G) ==
  IF bs = <<>> THEN <<>>
  ELSE (IF ToLower(SelectorOf(s, Head(bs))) \in G THEN <<>>
        ELSE <<[selector |-> SelectorOf(s, Head(bs)),
                declarations |-> DeclaredBy(s, Head(bs))]>>)
         \o ScopedOf(s, Tail(bs), G)

\* The extracted tables are those of the global selectors G.
ExtractedAsWith(G) ==
  pc # "start" =>
    /\ cssVars.global = GlobalOf(svg, RulesFrom(svg, 1), G)
    /\ cssVars.scoped = ScopedOf(svg, RulesFrom(svg, 1), G)

CopiedSlot ==
  [n \in {"--_text", "--_text-sec", "--_text-muted", "--_line", "--_arrow",
          "--_node-fill", "--_node-stroke", "--_group-fill"} |->
     CASE n = "--_text" -> "--fg"
       [] n \in {"--_text-sec", "--_text-muted"} -> "--muted"
       [] n = "--_line" -> "--line"
       [] n = "--_arrow" -> "--accent"
       [] n = "--_node-fill" -> "--surface"
       [] n = "--_node-stroke" -> "--border"
       [] n = "--_group-fill" -> "--bg"]

\* The ratio, in hundredths, of an internal slot that is a mix of fg and bg.
MixedSlotRatio ==
  [n \in {"--_text-faint", "--_group-hdr", "--_inner-stroke", "--_key-badge"}
     |-> CASE n = "--_text-faint" -> 25 [] n = "--_group-hdr" -> 5
           [] n = "--_inner-stroke" -> 12 [] n = "--_key-badge" -> 10]

\* C21: each internal slot is the resolved public colour it copies, or the
\* mix of the resolved fg and bg at its ratio, whether or not an override
\* key or a declaration of the document names the internal slot.
C21_InternalSlotsDerived ==
  Resolved =>
    /\ \A n \in DOMAIN CopiedSlot : computed[n] = computed[CopiedSlot[n]]
    /\ \A n \in DOMAIN MixedSlotRatio :
         computed[n]
           = mixColors(computed["--fg"], computed["--bg"], MixedSlotRatio[n])

\* C21 witness: the override --_text and a declaration of the document
\* both name an internal slot with a colour that is not the slot's value;
\* --_text is the fg of the overrides.
C21_Witness ==
  /\ pc = "resolved"
  /\ "--_text" \in DOMAIN colors /\ "fg" \in DOMAIN colors
  /\ computed["--_text"] = colors["fg"]
  /\ computed["--_text"] # colors["--_text"]
  /\ "--_text-sec" \in DOMAIN cssVars.global
  /\ computed["--_text-sec"] # cssVars.global["--_text-sec"]

(***************************************************************************)
(* C22.  The fallback of mixColors.                                        *)
(***************************************************************************)
\* hexToRgb parses the text: trimmed, it is a hex colour.
ParsesAsHex(c) == IsHexColour(TrimStr(c))

\* C22: when the foreground or the background of mixColors(fg, bg, ratio)
\* is no hex colour, the result is the foreground as given, for every ratio.
C22_FallbackIsForeground ==
  (pc = "mixed" /\ (~ParsesAsHex(args[1]) \/ ~ParsesAsHex(args[2])))
    => result = args[1]

\* C22 witness: the foreground is the upper-case colour "#ABCDEF", the
\* background the keyword "red", the ratio 0.3, and the result is "#ABCDEF".
C22_Witness ==
  /\ pc = "mixed"
  /\ args = <<"#ABCDEF", "red", 30>>
  /\ result = "#ABCDEF"

(***************************************************************************)
(* C23, C24, C25.  The chunk loop of batch.mjs.                            *)
(***************************************************************************)
\* The worker count is an integer w >= 1.
PositiveWorkers == ~args.workers.nan /\ args.workers.n >= 1

InLoop == pc \in {"for", "map", "await"}

InFlight == {f \in DOMAIN env.state : env.state[f] = "pending"}

Settled(f) == env.state[f] \in {"fulfilled", "rejected"}

\* The numbers of the files of the chunk that starts at file i.
ChunkAt(i) ==
  {f \in DOMAIN env.state : i <= f /\ f < i + args.workers.n}

\* C23: with a worker count w >= 1 the files are rendered in consecutive
\* chunks of at most w; while a chunk is being started or awaited every
\* file before it has been rendered once and has settled, rejected or not,
\* no file after it has been started, and at most w renders are in flight.
C23_ChunksRunOneAfterAnother ==
  (InLoop /\ PositiveWorkers) =>
    LET i == env.i.n
    IN  /\ \A f \in DOMAIN env.state :
             f < i => env.calls[f] = 1 /\ Settled(f)
        /\ Cardinality(InFlight) <= args.workers.n
        /\ pc = "for" =>
             \A f \in DOMAIN env.state : f >= i => env.calls[f] = 0
        /\ pc \in {"map", "await"} =>
             /\ {env.batch[k] : k \in 1..Len(env.batch)} = ChunkAt(i)
             /\ InFlight \subseteq ChunkAt(i)
             /\ \A f \in DOMAIN env.state :
                  f >= i + args.workers.n => env.calls[f] = 0
        /\ pc = "await" => \A f \in ChunkAt(i) : env.calls[f] = 1

\* C23 witness: with 2 workers the second chunk is awaited with its two
\* renders in flight, after a render of the first chunk was rejected.
C23_Witness ==
  /\ pc = "await"
  /\ args.workers = JsInt(2)
  /\ env.i = JsInt(2)
  /\ env.state[0] = "rejected"
  /\ InFlight = {2, 3}

\* C24: with a worker count w >= 1, once the chunk loop has finished every
\* file has been rendered exactly once and counted exactly once, as a
\* success or as a failure, and the exit status is 1 exactly when a file
\* failed.
C24_EveryFileCountedOnce ==
  (pc \in {"report", "exited"} /\ PositiveWorkers) =>
    /\ \A f \in DOMAIN env.state : env.calls[f] = 1 /\ Settled(f)
    /\ env.success
         = Cardinality({f \in DOMAIN env.state : env.state[f] = "fulfilled"})
    /\ {env.failed[k] : k \in 1..Len(env.failed)}
         = {f \in DOMAIN env.state : env.state[f] = "rejected"}
    /\ env.success + Len(env.failed) = args.files
    /\ pc = "exited" =>
         /\ result \in {0, 1}
         /\ result = 1 <=> \E f \in DOMAIN env.state :
                             env.state[f] = "rejected"

\* C24 witness: three files and two workers; the process exits with status
\* 1 after two successes and one failure, in the second chunk.
C24_Witness ==
  /\ pc = "exited"
  /\ args = [files |-> 3, workers |-> JsInt(2)]
  /\ env.success = 2
  /\ env.failed = <<2>>
  /\ result = 1

\* C25: the chunk loop terminates for every worker count parseArgs can
\* produce: a positive integer, 0, a negative integer or NaN.
C25_ChunkLoopTerminates ==
  <>(pc \in {"report", "exited"})

(***************************************************************************)
(* C26.  render.mjs in PNG mode.                                           *)
(***************************************************************************)
\* The conversion succeeded and no fallback file was written.
ConvertedOutcome == result.converted /\ result.fallback = NoFile

\* The conversion failed, the original SVG was written to the fallback path
\* and the exit status is 1.
FallbackOutcome ==
  /\ ~result.converted
  /\ result.fallback = [path |-> SvgPath(args[2]), content |-> svg]
  /\ result.exit = 1

\* C26 as stated: exactly one of two outcomes occurs: svgToPng succeeds and
\* no fallback file is written, or svgToPng fails, the original SVG is
\* written to the output path with .png replaced by .svg and the exit
\* status is 1.
C26_ConvertedOrFallbackWritten ==
  pc = "exited" =>
    /\ ConvertedOutcome \/ FallbackOutcome
    /\ ~(ConvertedOutcome /\ FallbackOutcome)

\* C26 amended: svgToPng succeeds, no fallback file is written; or svgToPng
\* fails and the exit status is 1, after the original SVG was written to the
\* output path with a final .png replaced by .svg (.svg appended when the
\* path does not end in .png), or after that write failed and no fallback
\* file exists.  No fallback is written after a success and a failed
\* conversion never ends with status 0.
C26_ConvertedOrFallbackAttempted ==
  pc = "exited" =>
    /\ result.converted = (/\ env.written /\ env.spawn.error = "none"
                           /\ env.spawn.status = "0")
    /\ \/ ConvertedOutcome
       \/ FallbackOutcome
       \/ ~result.converted /\ result.fallback = NoFile /\ result.exit = 1
    /\ result.fallback # NoFile
         => /\ ~result.converted
            /\ result.fallback.content # flatSvg
            /\ result.fallback.path
                 = IF EndsWith(args[2], ".png")
                   THEN DropLast(args[2], 4) \o ".svg"
                   ELSE args[2] \o ".svg"
    /\ ~result.converted => result.exit # 0

\* C26 witness: the converter exited with status 1 and the original SVG,
\* not the flattened one, was written to out.svg; the exit status is 1.
C26_Witness ==
  /\ pc = "exited"
  /\ env.spawn = [error |-> "none", status |-> "1"]
  /\ args[2] = "out.png"
  /\ result = [converted |-> FALSE,
               fallback |-> [path |-> "out.svg", content |-> svg],
               exit |-> 1]
  /\ svg # flatSvg

(***************************************************************************)
(* C27.  The temporary file of svgToPng.                                   *)
(***************************************************************************)
\* C27: whenever either svgToPng returns, on success or on failure, the
\* temporary file it created no longer exists (unless its removal was
\* tried and failed).
C27_NoTempFileLeft ==
  (pc = "returned" /\ env.unlinked # "failed") => ~env.tempFile

====
